---------------------------- MODULE Spec2Model ----------------------------
(***************************************************************************)
(* Model of the UX research synthesis pipeline of src/agents.py:           *)
(* DocumentIngestor -> InsightAnalyzer (extraction + deduplication) ->     *)
(* ThemeSynthesizer (clustering, priority, ordering) ->                    *)
(* KeyInsightSynthesizer (cards + executive summary) -> OutputFormatter,   *)
(* coordinated by UXResearchOrchestrator.                                  *)
(*                                                                         *)
(* Strings whose characters matter (quotes) are sequences of one-character *)
(* strings; labels that are only compared for equality are TLA+ strings.   *)
(***************************************************************************)
EXTENDS Integers, Sequences, FiniteSets, TLC

VARIABLES
    \* environment of one run
    file_paths,        \* the batch handed to the orchestrator
    api_key,           \* config.openai_api_key is non-empty
    sink_mode,         \* the Redis status sink: "ok", "down" or "flaky"
    llm_mode,          \* the generation service: "normal", "throws", "garbage"
    \* orchestrator and stage state
    pc,                \* position of the run
    documents,         \* chunks returned by DocumentIngestor.process
    all_insights,      \* InsightAnalyzer.process: concatenated chunk insights
    unique_insights,   \* InsightAnalyzer.process: result of deduplication
    insights,          \* orchestrator local handed to the later stages
    themes,            \* orchestrator local: sorted ThemeCluster list
    key_insights,      \* orchestrator local: KeyInsightCard list
    executive_summary, \* orchestrator local: ExecutiveSummary
    report,            \* JSON report written by the OutputFormatter
    results,           \* value returned by the orchestrator
    raised,            \* message of the exception the orchestrator re-raised
    session,           \* the session hash kept by the status sink
    phases,            \* phases entered so far, in order
    gen_calls,         \* generation calls issued so far, in order
    \* what the generation service answered
    chunk_resp,        \* per chunk, in chunk order
    theme_resp,        \* per theme label
    card_resp,         \* to the card generation call
    summary_resp,      \* to the executive summary call
    rerun,             \* a second deduplication, applied to unique_insights
    \* the process-files endpoint
    files,             \* the uploaded files of one request
    temp_files,        \* temporary files on disk
    response,          \* the HTTP response of the request
    background_tasks   \* the runs scheduled by the request

vars == <<file_paths, api_key, sink_mode, llm_mode, pc, documents,
          all_insights, unique_insights, insights, themes, key_insights,
          executive_summary, report, results, raised, session, phases,
          gen_calls, chunk_resp, theme_resp, card_resp, summary_resp, rerun,
          files, temp_files, response, background_tasks>>

upload_vars == <<files, temp_files, response, background_tasks>>

None == "None"

-----------------------------------------------------------------------------
(* Bounds *)

MaxDedupLen == 3      \* longest insight list given to the deduplicator alone
MaxInsights == 7      \* longest insight list given to the clusterer alone

-----------------------------------------------------------------------------
(* Generic sequence helpers *)

Rep(c, n) == [i \in 1..n |-> c]

Take(s, n) == IF Len(s) <= n THEN s ELSE SubSeq(s, 1, n)

SeqsUpTo(S, n) == UNION {[1..k -> S] : k \in 0..n}

RECURSIVE SumSeq(_)
SumSeq(s) == IF s = <<>> THEN 0 ELSE Head(s) + SumSeq(Tail(s))

-----------------------------------------------------------------------------
(* Python string operations used on quotes *)

\* str.lower() on the characters that occur in the model
LowerChar(c) ==
    CASE c = "A" -> "a"
      [] c = "Q" -> "q"
      [] OTHER   -> c

lower(s) == [i \in 1..Len(s) |-> LowerChar(s[i])]

IsSpace(c) == c = " "

RECURSIVE lstrip(_)
lstrip(s) == IF s # <<>> /\ IsSpace(Head(s)) THEN lstrip(Tail(s)) ELSE s

RECURSIVE rstrip(_)
rstrip(s) ==
    IF s # <<>> /\ IsSpace(s[Len(s)]) THEN rstrip(SubSeq(s, 1, Len(s) - 1)) ELSE s

\* str.strip()
strip(s) == rstrip(lstrip(s))

-----------------------------------------------------------------------------
(* InsightAnalyzer._deduplicate_insights *)

KeyPrefixLen == 50

\* a key that skips the normalisation
quote_key_unnormalized(insight) == Take(insight.quote, KeyPrefixLen)

\* quote_key = insight.quote.lower().strip()[:50]
quote_key(insight) == Take(strip(lower(insight.quote)), KeyPrefixLen)

\* the loop of _deduplicate_insights, from position i with the accumulators
RECURSIVE dedup_loop(_, _, _, _)
dedup_loop(list, i, seen_quotes, uniq) ==
    IF i > Len(list) THEN uniq
    ELSE IF quote_key(list[i]) \notin seen_quotes
         THEN dedup_loop(list, i + 1, seen_quotes \cup {quote_key(list[i])},
                         Append(uniq, list[i]))
         ELSE dedup_loop(list, i + 1, seen_quotes, uniq)

\* a deduplicator that removes from the list it is iterating over
RECURSIVE dedup_inplace_loop(_, _, _)
dedup_inplace_loop(list, i, seen_quotes) ==
    IF i > Len(list) THEN list
    ELSE IF quote_key(list[i]) \notin seen_quotes
         THEN dedup_inplace_loop(list, i + 1,
                                 seen_quotes \cup {quote_key(list[i])})
         ELSE dedup_inplace_loop(SubSeq(list, 1, i - 1)
                                   \o SubSeq(list, i + 1, Len(list)),
                                 i + 1, seen_quotes)

deduplicate_insights_inplace(list) == dedup_inplace_loop(list, 1, {})

deduplicate_insights(list) == dedup_loop(list, 1, {}, <<>>)

-----------------------------------------------------------------------------
(* Generation service responses.  A response is a record with a kind:      *)
(*   "throws"      the call raised                                         *)
(*   "not_json"    text that json.loads rejects                            *)
(*   "json_array"  text that parses to a JSON array  (field items)         *)
(*   "json_object" text that parses to a JSON object (field data)          *)
(* A JSON object is a function from the keys present to their values; the  *)
(* JSON value null parses to Python's None.  Text that is not JSON carries *)
(* its lines, which only the extractor's labeled-line parser reads.        *)

Null == None

Throws == [kind |-> "throws"]
NotJsonText(lines) == [kind |-> "not_json", lines |-> lines]
NotJson == NotJsonText(<<>>)
JsonArray(items) == [kind |-> "json_array", items |-> items]
JsonObject(data) == [kind |-> "json_object", data |-> data]

\* dict.get(key, default)
get(d, key, default) == IF key \in DOMAIN d THEN d[key] ELSE default

-----------------------------------------------------------------------------
(* ThemeSynthesizer._create_theme_cluster *)

RECURSIVE count_negative(_)
count_negative(group) ==
    IF group = <<>> THEN 0
    ELSE (IF Head(group).sentiment = "Negative" THEN 1 ELSE 0)
         + count_negative(Tail(group))

\* a rule that tests the frequency for Medium before the negative count
priority_rule_medium_first(frequency, negative_count) ==
    IF frequency >= 5 THEN "High"
    ELSE IF frequency >= 3 /\ negative_count < 3 THEN "Medium"
    ELSE IF negative_count >= 2 /\ frequency >= 3 THEN "High"
    ELSE "Low"

\* lines 754-759
priority_rule(frequency, negative_count) ==
    IF frequency >= 5 \/ (negative_count >= 2 /\ frequency >= 3) THEN "High"
    ELSE IF frequency >= 3 THEN "Medium"
    ELSE "Low"

\* f"Theme identified from {len(insights)} user insights"
FallbackSummary(n) == "Theme identified from " \o ToString(n) \o " user insights"

\* f"Theme based on {frequency} insights"
DefaultSummary(n) == "Theme based on " \o ToString(n) \o " insights"

\* a fallback that applies the normal priority rule
fallback_cluster_ruled(theme_name, group) ==
    [theme_name |-> theme_name,
     insights   |-> group,
     frequency  |-> Len(group),
     priority   |-> priority_rule(Len(group), count_negative(group)),
     summary    |-> FallbackSummary(Len(group))]

\* lines 769-778: the except branch
fallback_cluster(theme_name, group) ==
    [theme_name |-> theme_name,
     insights   |-> group,
     frequency  |-> Len(group),
     priority   |-> "Medium",
     summary    |-> FallbackSummary(Len(group))]

\* the try block reaches its return: the call returned, json.loads gave an
\* object, and ThemeCluster accepted theme_name and summary (null is no str)
theme_response_ok(resp, theme_name, group) ==
    /\ resp.kind = "json_object"
    /\ get(resp.data, "theme_name", theme_name) # Null
    /\ get(resp.data, "summary", DefaultSummary(Len(group))) # Null

\* a cluster creation that believes the priority of the response
create_theme_cluster_trusting(theme_name, group, resp) ==
    IF theme_response_ok(resp, theme_name, group)
    THEN [theme_name |-> get(resp.data, "theme_name", theme_name),
          insights   |-> group,
          frequency  |-> Len(group),
          priority   |-> get(resp.data, "priority",
                             priority_rule(Len(group), count_negative(group))),
          summary    |-> get(resp.data, "summary", DefaultSummary(Len(group)))]
    ELSE fallback_cluster(theme_name, group)

\* lines 743-767, with the except branch
create_theme_cluster(theme_name, group, resp) ==
    IF theme_response_ok(resp, theme_name, group)
    THEN [theme_name |-> get(resp.data, "theme_name", theme_name),
          insights   |-> group,
          frequency  |-> Len(group),
          priority   |-> priority_rule(Len(group), count_negative(group)),
          summary    |-> get(resp.data, "summary", DefaultSummary(Len(group)))]
    ELSE fallback_cluster(theme_name, group)

-----------------------------------------------------------------------------
(* ThemeSynthesizer._cluster_insights *)

\* keys of theme_groups in insertion order: labels by first occurrence
RECURSIVE theme_order(_, _)
theme_order(list, seen) ==
    IF list = <<>> THEN <<>>
    ELSE IF Head(list).theme \in seen THEN theme_order(Tail(list), seen)
         ELSE <<Head(list).theme>>
              \o theme_order(Tail(list), seen \cup {Head(list).theme})

\* a grouping that ignores the case of the label
LowerTheme(t) == IF t = "Nav" THEN "nav" ELSE t
theme_group_caseless(list, label) ==
    LET Same(x) == LowerTheme(x.theme) = LowerTheme(label) IN SelectSeq(list, Same)

\* theme_groups[label]
theme_group(list, label) ==
    LET Same(x) == x.theme = label IN SelectSeq(list, Same)

\* a key that ranks the three labels: High, then Medium, then Low
sort_key_ranked(c) ==
    <<CASE c.priority = "High" -> 2 [] c.priority = "Medium" -> 1 [] OTHER -> 0,
      c.frequency>>

\* sort key (x.priority == "High", x.frequency); False < True
sort_key(c) == <<IF c.priority = "High" THEN 1 ELSE 0, c.frequency>>

key_less(a, b) == a[1] < b[1] \/ (a[1] = b[1] /\ a[2] < b[2])

\* list.sort(key=..., reverse=True): descending and stable
RECURSIVE insert_desc(_, _)
insert_desc(sorted, c) ==
    IF sorted = <<>> THEN <<c>>
    ELSE IF key_less(sort_key(Head(sorted)), sort_key(c))
         THEN <<c>> \o sorted
         ELSE <<Head(sorted)>> \o insert_desc(Tail(sorted), c)

RECURSIVE sort_loop(_, _)
sort_loop(sorted, rest) ==
    IF rest = <<>> THEN sorted
    ELSE sort_loop(insert_desc(sorted, Head(rest)), Tail(rest))

\* a sort on the frequency alone
sort_clusters_by_frequency(clusters) ==
    LET byfreq(c) == [c EXCEPT !.priority = "Low"]
        RECURSIVE ins(_, _)
        ins(sorted, c) ==
            IF sorted = <<>> THEN <<c>>
            ELSE IF Head(sorted).frequency < c.frequency
                 THEN <<c>> \o sorted
                 ELSE <<Head(sorted)>> \o ins(Tail(sorted), c)
        RECURSIVE loop(_, _)
        loop(sorted, rest) ==
            IF rest = <<>> THEN sorted
            ELSE loop(ins(sorted, Head(rest)), Tail(rest))
    IN loop(<<>>, clusters)

sort_clusters(clusters) == sort_loop(<<>>, clusters)

\* resp maps each label to the generation response for its group
cluster_insights(list, resp) ==
    IF list = <<>> THEN <<>>
    ELSE LET order == theme_order(list, {})
             theme_clusters ==
                 [i \in 1..Len(order) |->
                    create_theme_cluster(order[i], theme_group(list, order[i]),
                                         resp[order[i]])]
         IN sort_clusters(theme_clusters)

-----------------------------------------------------------------------------
(* DocumentIngestor *)

SupportedSuffixes == {".pdf", ".docx", ".doc", ".txt"}

\* _process_single_file: the chunks of one file, none when the suffix is not
\* supported or the extraction raises; text_chunks is the number of windows
\* the splitter cuts the file's text into
process_single_file(path, file) ==
    IF file.ext \in SupportedSuffixes /\ file.readable
    THEN [i \in 1..file.text_chunks |->
            [source |-> path, chunk_id |-> i - 1, total_chunks |-> file.text_chunks]]
    ELSE <<>>

\* DocumentIngestor.process: all_documents.extend(...) in file order
RECURSIVE ingest_from(_, _)
ingest_from(paths, p) ==
    IF p > Len(paths) THEN <<>>
    ELSE process_single_file(p, paths[p]) \o ingest_from(paths, p + 1)

\* an ingestion that one failing file empties
ingest_all_or_nothing(paths) ==
    IF \E p \in 1..Len(paths) : process_single_file(p, paths[p]) = <<>>
    THEN <<>>
    ELSE ingest_from(paths, 1)

ingest(paths) == ingest_from(paths, 1)

-----------------------------------------------------------------------------
(* InsightAnalyzer._analyze_chunk and _parse_insights_fallback *)

RequiredInsightFields == {"quote", "theme", "sentiment", "confidence", "context"}

\* InsightData(**d) validates: the required fields are present, and the str
\* fields that a response may carry as null are not None
valid_insight(d) ==
    /\ \A k \in RequiredInsightFields : k \in DOMAIN d
    /\ \A k \in {"theme", "sentiment", "context"} : d[k] # Null

\* InsightData(**d)
insight_data(d) ==
    [quote |-> d["quote"], speaker |-> get(d, "speaker", None),
     theme |-> d["theme"], sentiment |-> d["sentiment"],
     confidence |-> d["confidence"], context |-> d["context"],
     timestamp |-> get(d, "timestamp", None)]

\* a confidence parser that turns what float() rejects into zero
parse_confidence_or_zero(text) ==
    CASE text = "0.9" -> 90
      [] text = "1.0" -> 100
      [] OTHER -> 0

\* lines 450-454: float(text) in hundredths, 0.5 when float() raises
parse_confidence(text) ==
    CASE text = "0.9" -> 90
      [] text = "1.0" -> 100
      [] OTHER -> 50

\* current_insight[key] = value
put(d, key, value) == (key :> value) @@ d

\* the loop body of the labeled-line parser for one line; a line is its label
\* and the stripped text after the label
RECURSIVE fallback_loop(_, _, _)
fallback_loop(lines, current_insight, acc) ==
    IF lines = <<>> THEN acc
    ELSE LET line == Head(lines)
             rest == Tail(lines)
         IN CASE line.label = "Quote" ->
                   fallback_loop(rest, put(current_insight, "quote", line.text), acc)
              [] line.label = "Theme" ->
                   fallback_loop(rest, put(current_insight, "theme", line.text), acc)
              [] line.label = "Sentiment" ->
                   fallback_loop(rest, put(current_insight, "sentiment", line.text), acc)
              [] line.label = "Confidence" ->
                   fallback_loop(rest,
                       put(current_insight, "confidence", parse_confidence(line.text)),
                       acc)
              [] line.label = "Context" ->
                   LET closed == put(current_insight, "context", line.text)
                   IN IF "quote" \in DOMAIN closed /\ "theme" \in DOMAIN closed
                      THEN fallback_loop(rest, <<>>,
                               Append(acc,
                                   [quote |-> closed["quote"],
                                    speaker |-> None,
                                    theme |-> closed["theme"],
                                    sentiment |-> get(closed, "sentiment", "Neutral"),
                                    confidence |-> get(closed, "confidence", 50),
                                    context |-> closed["context"],
                                    timestamp |-> None]))
                      ELSE fallback_loop(rest, <<>>, acc)
              [] OTHER -> fallback_loop(rest, current_insight, acc)

parse_insights_fallback(lines) == fallback_loop(lines, <<>>, <<>>)

\* the text of a response as the labeled-line parser sees it: JSON text has
\* no line that starts with a label
response_lines(resp) == IF resp.kind = "not_json" THEN resp.lines ELSE <<>>

\* _analyze_chunk: the insights of one chunk
analyze_chunk(resp) ==
    CASE resp.kind = "throws" -> <<>>
      [] resp.kind = "json_array"
           /\ \A i \in 1..Len(resp.items) : valid_insight(resp.items[i]) ->
              [i \in 1..Len(resp.items) |-> insight_data(resp.items[i])]
      [] resp.kind = "json_object" /\ valid_insight(resp.data) ->
              <<insight_data(resp.data)>>
      [] OTHER -> parse_insights_fallback(response_lines(resp))

\* an extraction that a throwing chunk brings to an end
RECURSIVE extract_all_aborting(_)
extract_all_aborting(resps) ==
    IF resps = <<>> \/ Head(resps).kind = "throws" THEN <<>>
    ELSE analyze_chunk(Head(resps)) \o extract_all_aborting(Tail(resps))

\* InsightAnalyzer.process up to the deduplication: extend in chunk order
RECURSIVE extract_all(_)
extract_all(resps) ==
    IF resps = <<>> THEN <<>>
    ELSE analyze_chunk(Head(resps)) \o extract_all(Tail(resps))

-----------------------------------------------------------------------------
(* KeyInsightSynthesizer *)

\* QuoteWithAttribution(**q) for a dict, QuoteWithAttribution(quote=str(q))
\* otherwise; a quote is given here as a dict
valid_quote(q) == "quote" \in DOMAIN q /\ q["quote"] # Null

quote_with_attribution(q) ==
    [quote |-> q["quote"], speaker |-> get(q, "speaker", None),
     context |-> get(q, "context", None)]

\* the loop body at lines 932-950 completes for this element: the quotes can
\* be iterated and built, and KeyInsightCard accepts the str fields
valid_card(c, i) ==
    /\ \A m \in 1..Len(get(c, "supporting_quotes", <<>>)) :
           valid_quote(get(c, "supporting_quotes", <<>>)[m])
    /\ get(c, "title", "Insight #" \o ToString(i)) # Null
    /\ get(c, "main_finding", "") # Null
    /\ get(c, "finding_type", "neutral") # Null

\* a card that keeps the number the generated content carries
key_insight_card_numbered(c, i) ==
    LET quotes == get(c, "supporting_quotes", <<>>)
    IN [insight_number     |-> get(c, "insight_number", i),
        title              |-> get(c, "title", "Insight #" \o ToString(i)),
        main_finding       |-> get(c, "main_finding", ""),
        finding_type       |-> get(c, "finding_type", "neutral"),
        problem_statement  |-> get(c, "problem_statement", None),
        supporting_quotes  |-> [m \in 1..Len(quotes) |-> quote_with_attribution(quotes[m])],
        behavioral_pattern |-> get(c, "behavioral_pattern", None),
        expected_journey   |-> get(c, "expected_journey", None),
        impact_metric      |-> get(c, "impact_metric", None)]

key_insight_card(c, i) ==
    LET quotes == get(c, "supporting_quotes", <<>>)
    IN [insight_number     |-> i,
        title              |-> get(c, "title", "Insight #" \o ToString(i)),
        main_finding       |-> get(c, "main_finding", ""),
        finding_type       |-> get(c, "finding_type", "neutral"),
        problem_statement  |-> get(c, "problem_statement", None),
        supporting_quotes  |-> [m \in 1..Len(quotes) |-> quote_with_attribution(quotes[m])],
        behavioral_pattern |-> get(c, "behavioral_pattern", None),
        expected_journey   |-> get(c, "expected_journey", None),
        impact_metric      |-> get(c, "impact_metric", None)]

\* a generator that drops the elements that fail and keeps the others
generate_key_insights_skipping(resp) ==
    IF resp.kind = "json_array"
    THEN LET ok(i) == valid_card(resp.items[i], i)
             kept == SelectSeq([i \in 1..Len(resp.items) |-> i], ok)
         IN [k \in 1..Len(kept) |-> key_insight_card(resp.items[kept[k]], kept[k])]
    ELSE <<>>

\* a generator that pads a short batch and cuts a long one to the 3..5 the
\* prompt asks for
generate_key_insights_clamped(resp) ==
    LET n == IF resp.kind = "json_array" THEN Len(resp.items) ELSE 0
        m == IF n < 3 THEN 3 ELSE IF n > 5 THEN 5 ELSE n
    IN [i \in 1..m |->
          IF i <= n /\ valid_card(resp.items[i], i)
          THEN key_insight_card(resp.items[i], i)
          ELSE key_insight_card(<<>>, i)]

\* a generator that answers a failure with one placeholder card
generate_key_insights_placeholder(resp) ==
    IF resp.kind = "json_array"
       /\ \A i \in 1..Len(resp.items) : valid_card(resp.items[i], i)
    THEN [i \in 1..Len(resp.items) |-> key_insight_card(resp.items[i], i)]
    ELSE <<key_insight_card([main_finding |-> "No key insights"], 1)>>

\* _generate_key_insights: every element becomes a card, or the except
\* branch returns the empty list.  Iterating a JSON object yields its keys,
\* on which .get raises; an empty object yields no element.
generate_key_insights(resp) ==
    IF resp.kind = "json_array"
       /\ \A i \in 1..Len(resp.items) : valid_card(resp.items[i], i)
    THEN [i \in 1..Len(resp.items) |-> key_insight_card(resp.items[i], i)]
    ELSE <<>>

RequiredSummaryFields ==
    {"research_question", "key_finding", "key_insight", "recommendation"}

\* ExecutiveSummary(**summary_data) validates
valid_summary(resp) ==
    /\ resp.kind = "json_object"
    /\ \A k \in RequiredSummaryFields : k \in DOMAIN resp.data /\ resp.data[k] # Null

\* a default summary that always reports zero cards
default_summary_zero(cards) ==
    [research_question |-> "User research analysis",
     key_finding |-> "0 key insights identified from user research",
     key_insight |-> "Multiple themes emerged from the research",
     recommendation |-> "Review key insights and prioritize implementation",
     context |-> None]

\* lines 982-988
default_summary(cards) ==
    [research_question |-> "User research analysis",
     key_finding |-> ToString(Len(cards)) \o " key insights identified from user research",
     key_insight |-> "Multiple themes emerged from the research",
     recommendation |-> "Review key insights and prioritize implementation",
     context |-> None]

\* _generate_executive_summary
generate_executive_summary(cards, resp) ==
    IF valid_summary(resp)
    THEN [research_question |-> resp.data["research_question"],
          key_finding |-> resp.data["key_finding"],
          key_insight |-> resp.data["key_insight"],
          recommendation |-> resp.data["recommendation"],
          context |-> get(resp.data, "context", None)]
    ELSE default_summary(cards)

\* KeyInsightSynthesizer.process: the two generation calls, in order
synthesize_key_insights(cresp, sresp) ==
    /\ key_insights' = generate_key_insights(cresp)
    /\ executive_summary' =
           generate_executive_summary(generate_key_insights(cresp), sresp)
    /\ card_resp' = cresp
    /\ summary_resp' = sresp
    /\ gen_calls' = gen_calls \o <<[site |-> "cards", key |-> "cards"],
                                   [site |-> "summary", key |-> "summary"]>>

-----------------------------------------------------------------------------
(* Values of the variables a specification does not use *)

EnvIdle ==
    /\ file_paths = <<>>
    /\ api_key = TRUE
    /\ sink_mode = "ok"
    /\ llm_mode = "normal"

UploadIdle ==
    /\ files = <<>>
    /\ temp_files = <<>>
    /\ response = None
    /\ background_tasks = <<>>

RunIdle ==
    /\ documents = <<>>
    /\ key_insights = <<>>
    /\ executive_summary = None
    /\ report = None
    /\ results = None
    /\ raised = None
    /\ session = <<>>
    /\ phases = <<>>
    /\ gen_calls = <<>>
    /\ chunk_resp = <<>>
    /\ card_resp = None
    /\ summary_resp = None

-----------------------------------------------------------------------------
(* The deduplicator on its own: SpecDedup *)

A50 == Rep("a", KeyPrefixLen)

\* quotes that agree or differ in case, outer whitespace and beyond the prefix
DedupQuotes ==
    { A50 \o <<"b">>,                       \* 51 characters
      A50 \o <<"c">>,                       \* differs after the prefix only
      <<" ">> \o Rep("A", KeyPrefixLen) \o <<"b">>,   \* case, leading blank
      Rep("a", KeyPrefixLen - 1),           \* shorter than the prefix
      Rep("a", KeyPrefixLen - 1) \o <<" ", "b">>,     \* blank at position 50
      <<"Q", "1">>,
      <<"q", "1", " ">> }

Insight(q, t, s) ==
    [quote |-> q, speaker |-> None, theme |-> t, sentiment |-> s,
     confidence |-> 90, context |-> "ctx", timestamp |-> None]

DedupPool == {Insight(q, t, "Neutral") : q \in DedupQuotes, t \in {"Nav", "Search"}}

InitDedup ==
    /\ UploadIdle
    /\ EnvIdle /\ RunIdle
    /\ pc = "dedup_input"
    /\ all_insights \in SeqsUpTo(DedupPool, MaxDedupLen)
    /\ unique_insights = <<>>
    /\ rerun = <<>>
    /\ insights = <<>>
    /\ themes = <<>>
    /\ theme_resp = <<>>

DedupOnce ==
    /\ pc = "dedup_input"
    /\ unique_insights' = deduplicate_insights(all_insights)
    /\ pc' = "deduplicated"
    /\ UNCHANGED upload_vars
    /\ UNCHANGED <<file_paths, api_key, sink_mode, llm_mode, documents,
                   all_insights, insights, themes, key_insights,
                   executive_summary, report, results, raised, session, phases,
                   gen_calls, chunk_resp, theme_resp, card_resp, summary_resp,
                   rerun>>

DedupAgain ==
    /\ pc = "deduplicated"
    /\ rerun' = deduplicate_insights(unique_insights)
    /\ pc' = "deduplicated_twice"
    /\ UNCHANGED upload_vars
    /\ UNCHANGED <<file_paths, api_key, sink_mode, llm_mode, documents,
                   all_insights, unique_insights, insights, themes,
                   key_insights, executive_summary, report, results, raised,
                   session, phases, gen_calls, chunk_resp, theme_resp,
                   card_resp, summary_resp>>

NextDedup == DedupOnce \/ DedupAgain

SpecDedup == InitDedup /\ [][NextDedup]_vars

-----------------------------------------------------------------------------
(* Claims about the deduplicator (SpecDedup) *)

Deduplicated == pc \in {"deduplicated", "deduplicated_twice"}

\* the key as the contract words it: lower-cased, trimmed, first 50 characters
ContractKey(insight) == Take(strip(lower(insight.quote)), 50)

\* positions of all_insights with no earlier insight of the same key
FirstSeen ==
    {i \in 1..Len(all_insights) :
        \A j \in 1..(i - 1) :
            ContractKey(all_insights[j]) # ContractKey(all_insights[i])}

\* the k-th smallest position of FirstSeen
NthFirstSeen(k) ==
    CHOOSE i \in FirstSeen : Cardinality({j \in FirstSeen : j <= i}) = k

\* C4: the deduplicator returns the subsequence of its input made of exactly
\* the insights with no earlier insight of the same key (lower-cased, trimmed,
\* first 50 characters of the quote), in input order; so no two insights of
\* the output share a key and every key of the input is in the output.
C4_DedupKeepsFirstOfEachKey ==
    Deduplicated =>
        /\ Len(unique_insights) = Cardinality(FirstSeen)
        /\ \A k \in 1..Len(unique_insights) :
               unique_insights[k] = all_insights[NthFirstSeen(k)]
        /\ \A a, b \in 1..Len(unique_insights) :
               a # b => ContractKey(unique_insights[a]) # ContractKey(unique_insights[b])
        /\ {ContractKey(all_insights[i]) : i \in 1..Len(all_insights)}
             = {ContractKey(unique_insights[k]) : k \in 1..Len(unique_insights)}

\* a run that dropped an insight whose quote differs from the kept one only
\* in case, outer whitespace or beyond the prefix, and kept two insights
C4_Witness ==
    /\ pc = "deduplicated"
    /\ Len(unique_insights) = 2
    /\ Len(all_insights) = 3
    /\ \E i \in (1..Len(all_insights)) \ FirstSeen :
           \A j \in 1..(i - 1) : all_insights[j].quote # all_insights[i].quote

\* C5: deduplicating the deduplicator's own output changes nothing.
C5_DedupIdempotent ==
    pc = "deduplicated_twice" => rerun = unique_insights

\* the second pass ran on an output from which the first pass had removed
\* something
C5_Witness ==
    /\ pc = "deduplicated_twice"
    /\ Len(unique_insights) < Len(all_insights)
    /\ Len(rerun) >= 1


-----------------------------------------------------------------------------
(* ThemeSynthesizer.process: one generation call per theme group, in the    *)
(* order of the groups, then the sort.                                      *)

ThemeLabels(list) == {list[i].theme : i \in 1..Len(list)}

FullTheme ==
    [theme_name |-> "Navigation Issues", priority |-> "Low",
     summary |-> "Generated summary"]

\* what the service may answer to a theme prompt
ThemeResponses ==
    CASE llm_mode = "throws"  -> {Throws}
      [] llm_mode = "garbage" -> {NotJson}
      [] OTHER -> {Throws, NotJson, JsonObject(FullTheme), JsonObject(<<>>)}

theme_calls(list) ==
    LET order == theme_order(list, {})
    IN [i \in 1..Len(order) |-> [site |-> "theme", key |-> order[i]]]

synthesize_themes(resp) ==
    /\ themes' = cluster_insights(insights, resp)
    /\ theme_resp' = resp
    /\ gen_calls' = gen_calls \o theme_calls(insights)

-----------------------------------------------------------------------------
(* The clusterer on its own: SpecCluster *)

ClusterInsight(i, t, s) == Insight(<<"q", ToString(i)>>, t, s)

ClusterThemes == {"Nav", "nav"}

\* deduplicated insight lists: the i-th insight has the i-th quote, the labels
\* come in every order, and the first n insights are the Negative ones (line
\* 751 only counts them)
ClusterInputs ==
    UNION {{[i \in 1..k |->
               ClusterInsight(i, f[i], IF i <= n THEN "Negative" ELSE "Positive")] :
              f \in [1..k -> ClusterThemes], n \in 0..k} :
           k \in 0..MaxInsights}

InitCluster ==
    /\ UploadIdle
    /\ EnvIdle /\ RunIdle
    /\ pc = "cluster_input"
    /\ insights \in ClusterInputs
    /\ all_insights = <<>>
    /\ unique_insights = <<>>
    /\ rerun = <<>>
    /\ themes = <<>>
    /\ theme_resp = <<>>

\* the prompt asks for a "priority" of High, Medium or Low (lines 657-667)
UrgentTheme == [FullTheme EXCEPT !.priority = "High"]

ClusterResponses == ThemeResponses \cup {JsonObject(UrgentTheme)}

ClusterOnce ==
    /\ pc = "cluster_input"
    /\ \E resp \in [ThemeLabels(insights) -> ClusterResponses] :
           synthesize_themes(resp)
    /\ pc' = "clustered"
    /\ UNCHANGED upload_vars
    /\ UNCHANGED <<file_paths, api_key, sink_mode, llm_mode, documents,
                   all_insights, unique_insights, insights, key_insights,
                   executive_summary, report, results, raised, session, phases,
                   chunk_resp, card_resp, summary_resp, rerun>>

NextCluster == ClusterOnce

SpecCluster == InitCluster /\ [][NextCluster]_vars

-----------------------------------------------------------------------------
(* Claims about the clusterer (SpecCluster) *)

\* the raw label of a cluster: the theme its members share
LabelOf(c) == c.insights[1].theme

NegativeCount(c) ==
    Cardinality({m \in 1..Len(c.insights) : c.insights[m].sentiment = "Negative"})

\* the cluster came out of the try block
NormalPath(c) == theme_response_ok(theme_resp[LabelOf(c)], LabelOf(c), c.insights)

\* the priority rule of the contract, top-down, first match wins
ContractPriority(frequency, negative_count) ==
    IF frequency >= 5 THEN "High"
    ELSE IF negative_count >= 2 /\ frequency >= 3 THEN "High"
    ELSE IF frequency >= 3 THEN "Medium"
    ELSE "Low"

ThreeNegativeNav == [i \in 1..3 |-> ClusterInsight(i, "Nav", "Negative")]

\* C1: a cluster built on the normal path has the priority of the first
\* matching rule over (frequency, negative_count); (5,0), (3,2) give High,
\* (3,0) Medium, (2,2) Low; three Negative "Nav" insights give one cluster of
\* frequency 3 and priority High.
C1_NormalPathPriority ==
    /\ priority_rule(5, 0) = "High"
    /\ priority_rule(3, 2) = "High"
    /\ priority_rule(3, 0) = "Medium"
    /\ priority_rule(2, 2) = "Low"
    /\ pc = "clustered" =>
         /\ \A k \in 1..Len(themes) :
                NormalPath(themes[k]) =>
                    themes[k].priority =
                        ContractPriority(themes[k].frequency, NegativeCount(themes[k]))
         /\ (insights = ThreeNegativeNav /\ theme_resp["Nav"].kind = "json_object") =>
                /\ Len(themes) = 1
                /\ themes[1].frequency = 3
                /\ themes[1].priority = "High"

\* the three Negative "Nav" insights, clustered on the normal path
C1_Witness ==
    /\ pc = "clustered"
    /\ insights = ThreeNegativeNav
    /\ theme_resp["Nav"].kind = "json_object"
    /\ themes[1].priority = "High"

\* C2: when the generation call throws or its output does not parse, the
\* cluster has the raw label as theme_name, the templated summary, the group
\* size as frequency and priority Medium, whatever the normal rule would give.
C2_FallbackCluster ==
    pc = "clustered" =>
        \A k \in 1..Len(themes) :
            theme_resp[LabelOf(themes[k])].kind \in {"throws", "not_json"} =>
                /\ themes[k].theme_name = LabelOf(themes[k])
                /\ themes[k].frequency =
                       Cardinality({i \in 1..Len(insights) :
                                       insights[i].theme = LabelOf(themes[k])})
                /\ themes[k].summary =
                       "Theme identified from " \o ToString(themes[k].frequency)
                          \o " user insights"
                /\ themes[k].priority = "Medium"

\* two fallback clusters: one the normal rule would rate High, one Low
C2_Witness ==
    /\ pc = "clustered"
    /\ Len(themes) = 2
    /\ theme_resp["Nav"].kind = "throws"
    /\ theme_resp["nav"].kind = "not_json"
    /\ \E a, b \in 1..2 :
         /\ ContractPriority(themes[a].frequency, NegativeCount(themes[a])) = "High"
         /\ ContractPriority(themes[b].frequency, NegativeCount(themes[b])) = "Low"
         /\ themes[a].priority = "Medium"
         /\ themes[b].priority = "Medium"

\* position of the first insight with the label of cluster c
FirstSeenAt(c) ==
    CHOOSE i \in 1..Len(insights) :
        /\ insights[i].theme = LabelOf(c)
        /\ \A j \in 1..(i - 1) : insights[j].theme # LabelOf(c)

\* C3: in the returned list every High cluster precedes every other cluster,
\* clusters of one priority label are in non-increasing frequency, and clusters
\* with equal (priority is High, frequency) keep first-seen order; the sort
\* turns [(High,2), (Medium,10), (High,9)] into [(High,9), (High,2), (Medium,10)].
C3_ClusterOrdering ==
    /\ sort_clusters(<<[priority |-> "High", frequency |-> 2],
                       [priority |-> "Medium", frequency |-> 10],
                       [priority |-> "High", frequency |-> 9]>>)
         = <<[priority |-> "High", frequency |-> 9],
             [priority |-> "High", frequency |-> 2],
             [priority |-> "Medium", frequency |-> 10]>>
    /\ pc = "clustered" =>
         \A a, b \in 1..Len(themes) :
             a < b =>
                 /\ themes[b].priority = "High" => themes[a].priority = "High"
                 /\ themes[a].priority = themes[b].priority =>
                        themes[a].frequency >= themes[b].frequency
                 /\ ( /\ (themes[a].priority = "High") = (themes[b].priority = "High")
                      /\ themes[a].frequency = themes[b].frequency )
                        => FirstSeenAt(themes[a]) < FirstSeenAt(themes[b])

\* a High cluster moved ahead of a Medium cluster seen earlier and larger
C3_Witness ==
    /\ pc = "clustered"
    /\ Len(themes) = 2
    /\ themes[1].priority = "High"
    /\ themes[2].priority = "Medium"
    /\ themes[1].frequency < themes[2].frequency
    /\ FirstSeenAt(themes[2]) < FirstSeenAt(themes[1])

\* members of the input with a given label, in arrival order
MembersOf(label) ==
    LET Has(x) == x.theme = label IN SelectSeq(insights, Has)

\* C6: the clusters partition the input by exact theme string: one cluster per
\* distinct label, each holding the insights of its label in arrival order,
\* with frequency the length of its list, and the frequencies sum to the
\* number of input insights.
C6_ClusterPartition ==
    pc = "clustered" =>
        /\ Len(themes) = Cardinality(ThemeLabels(insights))
        /\ \A label \in ThemeLabels(insights) :
               Cardinality({k \in 1..Len(themes) : LabelOf(themes[k]) = label}) = 1
        /\ \A k \in 1..Len(themes) :
               /\ themes[k].insights = MembersOf(LabelOf(themes[k]))
               /\ themes[k].frequency = Len(themes[k].insights)
        /\ \A i \in 1..Len(insights) :
               Cardinality({k \in 1..Len(themes) :
                               \E m \in 1..Len(themes[k].insights) :
                                   themes[k].insights[m] = insights[i]}) = 1
        /\ SumSeq([k \in 1..Len(themes) |-> themes[k].frequency]) = Len(insights)

\* labels that differ only in case, interleaved in the input
C6_Witness ==
    /\ pc = "clustered"
    /\ Len(themes) = 2
    /\ Len(insights) >= 4
    /\ insights[1].theme = "Nav"
    /\ insights[2].theme = "nav"
    /\ insights[3].theme = "Nav"
    /\ \A k \in 1..2 : themes[k].frequency >= 2

-----------------------------------------------------------------------------
(* The status sink.  The orchestrator's client is built before the ping and *)
(* stays set when the ping fails, so each of its writes either lands or     *)
(* raises.  An agent drops its client when the ping fails, and              *)
(* update_session_status swallows what its write raises.                    *)

\* whether one write to the sink lands
SinkWrites ==
    CASE sink_mode = "ok"   -> {TRUE}
      [] sink_mode = "down" -> {FALSE}
      [] OTHER              -> BOOLEAN

\* redis hset / hmset on the session hash
hset(sess, mapping) == mapping @@ sess

\* BaseAgent.update_session_status
update_session_status(sess, mapping, lands) ==
    IF lands THEN hset(sess, mapping) ELSE sess

ConnectionError == "ConnectionError"
NoDocuments == "No documents were successfully processed"
ApiKeyRequired == "OpenAI API key is required"

-----------------------------------------------------------------------------
(* OutputFormatter *)

RECURSIVE quotes_extracted(_)
quotes_extracted(cards) ==
    IF cards = <<>> THEN 0
    ELSE Len(Head(cards).supporting_quotes) + quotes_extracted(Tail(cards))

theme_dict(t) ==
    [theme_name |-> t.theme_name, frequency |-> t.frequency,
     priority |-> t.priority, summary |-> t.summary, insights |-> t.insights]

\* _create_json_report_with_key_insights
json_report(ins, ths, cards, summary) ==
    [executive_summary |-> summary,
     key_insights |-> cards,
     summary |-> [total_insights |-> Len(ins),
                  themes_identified |-> Len(ths),
                  key_insights_count |-> Len(cards),
                  personas_created |-> 0,
                  quotes_extracted |-> quotes_extracted(cards),
                  files_processed |-> 5,
                  processing_time |-> "2m 34s"],
     themes |-> [i \in 1..Len(ths) |-> theme_dict(ths[i])],
     insights |-> ins]

\* the dict returned at lines 1464-1488
run_results(ins, ths) ==
    [status |-> "completed",
     results |-> [insights_count |-> Len(ins), themes_count |-> Len(ths),
                  personas_count |-> 0],
     insights |-> ins,
     themes |-> [i \in 1..Len(ths) |-> theme_dict(ths[i])],
     personas |-> <<>>]

-----------------------------------------------------------------------------
(* Inputs of a whole run *)

MaxFiles == 2         \* largest batch handed to the orchestrator

\* a file is what the ingestor finds at its path
TextFile   == [ext |-> ".txt", readable |-> TRUE,  text_chunks |-> 1]
EmptyFile  == [ext |-> ".txt", readable |-> TRUE,  text_chunks |-> 0]
CorruptPdf == [ext |-> ".pdf", readable |-> FALSE, text_chunks |-> 1]
CsvFile    == [ext |-> ".csv", readable |-> TRUE,  text_chunks |-> 1]

Files == {TextFile, EmptyFile, CorruptPdf, CsvFile}

\* objects a chunk response may carry; D2 has the deduplication key of D1
D1 == [quote |-> <<"Q", "1">>, theme |-> "Nav", sentiment |-> "Negative",
       confidence |-> 90, context |-> "ctx"]
D2 == [quote |-> <<"q", "1", " ">>, theme |-> "Search", sentiment |-> "Positive",
       confidence |-> 50, context |-> "ctx"]
D3 == [quote |-> <<"q", "2">>, theme |-> "Search", sentiment |-> "Negative",
       confidence |-> 90, context |-> "ctx", speaker |-> "P1"]
NoConfidence == [quote |-> <<"q", "3">>, theme |-> "Nav", sentiment |-> "Neutral",
                 context |-> "ctx"]

\* text that is not JSON but carries one labeled record
LabeledText ==
    NotJsonText(<<[label |-> "Quote", text |-> <<"q", "4">>],
                  [label |-> "Theme", text |-> "Nav"],
                  [label |-> "Confidence", text |-> "high"],
                  [label |-> "Context", text |-> "ctx"]>>)

\* what the service may answer to a chunk prompt
ChunkResponses ==
    CASE llm_mode = "throws"  -> {Throws}
      [] llm_mode = "garbage" -> {NotJson, LabeledText}
      [] OTHER -> {Throws, NotJson, JsonArray(<<D1, D3>>), JsonArray(<<D2>>),
                   JsonArray(<<D1, NoConfidence>>), JsonArray(<<>>)}

Card(n) ==
    [insight_number |-> n, title |-> "Title", main_finding |-> "Finding",
     finding_type |-> "negative",
     supporting_quotes |-> <<[quote |-> "said", speaker |-> "P1"]>>]

\* what the service may answer to the card prompt
CardResponses ==
    CASE llm_mode = "throws"  -> {Throws}
      [] llm_mode = "garbage" -> {NotJson}
      [] OTHER -> {Throws, NotJson, JsonArray(<<Card(1), Card(2), Card(3)>>),
                   JsonArray(<<Card(1)>>)}

FullSummary ==
    [research_question |-> "Why", key_finding |-> "Finding",
     key_insight |-> "Insight", recommendation |-> "Do"]

\* what the service may answer to the executive summary prompt
SummaryResponses ==
    CASE llm_mode = "throws"  -> {Throws}
      [] llm_mode = "garbage" -> {NotJson}
      [] OTHER -> {Throws, NotJson, JsonObject(FullSummary)}

\* lines 1399-1407; nothing reads the characters of this quote
NoInsightsFound ==
    [quote |-> <<"No significant insights found in the provided documents">>,
     speaker |-> None, theme |-> "Analysis Result", sentiment |-> "Neutral",
     confidence |-> 100, context |-> "System message", timestamp |-> None]

\* an orchestrator that hands on whatever the extractor returned
hand_on_unchanged(unique) == unique

\* lines 1397-1407: if not insights: insights = [InsightData(...)]
substitute_sentinel(unique) ==
    IF unique = <<>> THEN <<NoInsightsFound>> ELSE unique

-----------------------------------------------------------------------------
(* UXResearchOrchestrator.process_research_files_with_session: Spec *)

Init ==
    /\ UploadIdle
    /\ file_paths \in SeqsUpTo(Files, MaxFiles)
    /\ api_key \in BOOLEAN
    /\ sink_mode \in {"ok", "down", "flaky"}
    /\ llm_mode \in {"normal", "throws", "garbage"}
    /\ pc = "start"
    /\ RunIdle
    /\ all_insights = <<>>
    /\ unique_insights = <<>>
    /\ insights = <<>>
    /\ themes = <<>>
    /\ theme_resp = <<>>
    /\ rerun = <<>>

\* the except branch at lines 1490-1501: the failure is written to the sink
\* and re-raised; when that write raises, its exception leaves instead
orchestrator_fails(sess, error) ==
    /\ pc' = "failed"
    /\ \E lands \in SinkWrites :
           IF lands
           THEN /\ session' = hset(sess, [status |-> "failed", error_message |-> error])
                /\ raised' = error
           ELSE /\ session' = sess
                /\ raised' = ConnectionError

\* lines 1350-1365
StartRun ==
    /\ pc = "start"
    /\ \E lands \in SinkWrites :
           IF lands
           THEN /\ session' = hset(session,
                                   [status |-> "processing",
                                    current_phase |-> "initialization",
                                    file_count |-> Len(file_paths),
                                    insights_extracted |-> 0,
                                    themes_identified |-> 0,
                                    personas_created |-> 0])
                /\ pc' = "document_ingestion"
                /\ raised' = raised
           ELSE orchestrator_fails(session, ConnectionError)
    /\ UNCHANGED upload_vars
    /\ UNCHANGED <<file_paths, api_key, sink_mode, llm_mode, documents,
                   all_insights, unique_insights, insights, themes,
                   key_insights, executive_summary, report, results, phases,
                   gen_calls, chunk_resp, theme_resp, card_resp, summary_resp,
                   rerun>>

\* lines 1367-1378, with DocumentIngestor.process
DocumentIngestion ==
    /\ pc = "document_ingestion"
    /\ phases' = Append(phases, "document_ingestion")
    /\ \E lands, agent_lands \in SinkWrites :
           IF ~lands
           THEN /\ orchestrator_fails(session, ConnectionError)
                /\ documents' = documents
           ELSE LET s1 == hset(session, [current_phase |-> "document_ingestion"])
                    s2 == update_session_status(s1, [status |-> "processing"],
                                                agent_lands)
                IN /\ documents' = ingest(file_paths)
                   /\ IF ingest(file_paths) = <<>>
                      THEN orchestrator_fails(s2, NoDocuments)
                      ELSE /\ session' = s2
                           /\ pc' = "insight_analysis"
                           /\ raised' = raised
    /\ UNCHANGED upload_vars
    /\ UNCHANGED <<file_paths, api_key, sink_mode, llm_mode, all_insights,
                   unique_insights, insights, themes, key_insights,
                   executive_summary, report, results, gen_calls, chunk_resp,
                   theme_resp, card_resp, summary_resp, rerun>>

\* an extractor that issues the call of every chunk a second time
chunk_calls_repeated(docs) ==
    [i \in 1..(2 * Len(docs)) |->
        [site |-> "chunk", key |-> ToString(((i - 1) % Len(docs)) + 1)]]

chunk_calls(docs) ==
    [i \in 1..Len(docs) |-> [site |-> "chunk", key |-> ToString(i)]]

\* InsightAnalyzer.process: one generation call per chunk, in chunk order,
\* then the deduplication
analyze_insights(resps) ==
    /\ all_insights' = extract_all(resps)
    /\ unique_insights' = deduplicate_insights(extract_all(resps))
    /\ chunk_resp' = resps
    /\ gen_calls' = gen_calls \o chunk_calls(documents)

\* lines 1380-1407, with InsightAnalyzer.__init__ and process
InsightAnalysis ==
    /\ pc = "insight_analysis"
    /\ phases' = Append(phases, "insight_analysis")
    /\ \E lands, count_lands \in SinkWrites :
           IF ~lands \/ ~api_key
           THEN /\ IF ~lands
                   THEN orchestrator_fails(session, ConnectionError)
                   ELSE orchestrator_fails(
                            hset(session, [current_phase |-> "insight_analysis"]),
                            ApiKeyRequired)
                /\ UNCHANGED <<all_insights, unique_insights, insights,
                               chunk_resp, gen_calls>>
           ELSE \E resps \in [1..Len(documents) -> ChunkResponses] :
                  LET s1 == hset(session, [current_phase |-> "insight_analysis"])
                      unique == deduplicate_insights(extract_all(resps))
                  IN /\ analyze_insights(resps)
                     /\ IF ~count_lands
                        THEN /\ orchestrator_fails(s1, ConnectionError)
                             /\ insights' = unique
                        ELSE /\ session' = hset(s1, [insights_extracted |-> Len(unique)])
                             /\ insights' = substitute_sentinel(unique)
                             /\ pc' = "theme_synthesis"
                             /\ raised' = raised
    /\ UNCHANGED upload_vars
    /\ UNCHANGED <<file_paths, api_key, sink_mode, llm_mode, documents, themes,
                   key_insights, executive_summary, report, results,
                   theme_resp, card_resp, summary_resp, rerun>>

\* a theme synthesis that regroups the list it is handed, in place
ThemeSynthesis_regrouping ==
    /\ pc = "theme_synthesis"
    /\ phases' = Append(phases, "theme_synthesis")
    /\ \E lands, agent_lands, count_lands \in SinkWrites :
           IF ~lands
           THEN /\ orchestrator_fails(session, ConnectionError)
                /\ UNCHANGED <<themes, theme_resp, gen_calls, insights>>
           ELSE \E resp \in [ThemeLabels(insights) -> ThemeResponses] :
                  LET n  == Len(cluster_insights(insights, resp))
                      s1 == hset(session, [current_phase |-> "theme_synthesis"])
                      s2 == update_session_status(
                                s1, [status |-> "processing", themes_identified |-> n],
                                agent_lands)
                  IN /\ synthesize_themes(resp)
                     /\ insights' = [i \in 1..Len(insights) |->
                                        insights[Len(insights) + 1 - i]]
                     /\ IF ~count_lands
                        THEN orchestrator_fails(s2, ConnectionError)
                        ELSE /\ session' = hset(s2, [themes_identified |-> n])
                             /\ pc' = "key_insight_synthesis"
                             /\ raised' = raised
    /\ UNCHANGED upload_vars
    /\ UNCHANGED <<file_paths, api_key, sink_mode, llm_mode, documents,
                   all_insights, unique_insights, key_insights,
                   executive_summary, report, results, chunk_resp, card_resp,
                   summary_resp, rerun>>

\* lines 1409-1424, with ThemeSynthesizer.process
ThemeSynthesis ==
    /\ pc = "theme_synthesis"
    /\ phases' = Append(phases, "theme_synthesis")
    /\ \E lands, agent_lands, count_lands \in SinkWrites :
           IF ~lands
           THEN /\ orchestrator_fails(session, ConnectionError)
                /\ UNCHANGED <<themes, theme_resp, gen_calls>>
           ELSE \E resp \in [ThemeLabels(insights) -> ThemeResponses] :
                  LET n  == Len(cluster_insights(insights, resp))
                      s1 == hset(session, [current_phase |-> "theme_synthesis"])
                      s2 == update_session_status(
                                s1, [status |-> "processing", themes_identified |-> n],
                                agent_lands)
                  IN /\ synthesize_themes(resp)
                     /\ IF ~count_lands
                        THEN orchestrator_fails(s2, ConnectionError)
                        ELSE /\ session' = hset(s2, [themes_identified |-> n])
                             /\ pc' = "key_insight_synthesis"
                             /\ raised' = raised
    /\ UNCHANGED upload_vars
    /\ UNCHANGED <<file_paths, api_key, sink_mode, llm_mode, documents,
                   all_insights, unique_insights, insights, key_insights,
                   executive_summary, report, results, chunk_resp, card_resp,
                   summary_resp, rerun>>

\* a key insight synthesis that does not wait for the theme synthesis
KeyInsightSynthesis_unordered ==
    /\ pc \in {"theme_synthesis", "key_insight_synthesis"}
    /\ phases' = Append(phases, "key_insight_synthesis")
    /\ \E lands \in SinkWrites :
           IF ~lands
           THEN /\ orchestrator_fails(session, ConnectionError)
                /\ UNCHANGED <<key_insights, executive_summary, card_resp,
                               summary_resp, gen_calls>>
           ELSE /\ \E cresp \in CardResponses, sresp \in SummaryResponses :
                       synthesize_key_insights(cresp, sresp)
                /\ session' = hset(session, [current_phase |-> "key_insight_synthesis"])
                /\ pc' = "output_formatting"
                /\ raised' = raised
    /\ UNCHANGED upload_vars
    /\ UNCHANGED <<file_paths, api_key, sink_mode, llm_mode, documents,
                   all_insights, unique_insights, insights, themes, report,
                   results, chunk_resp, theme_resp, rerun>>

\* lines 1426-1434, with KeyInsightSynthesizer.process
KeyInsightSynthesis ==
    /\ pc = "key_insight_synthesis"
    /\ phases' = Append(phases, "key_insight_synthesis")
    /\ \E lands \in SinkWrites :
           IF ~lands
           THEN /\ orchestrator_fails(session, ConnectionError)
                /\ UNCHANGED <<key_insights, executive_summary, card_resp,
                               summary_resp, gen_calls>>
           ELSE /\ \E cresp \in CardResponses, sresp \in SummaryResponses :
                       synthesize_key_insights(cresp, sresp)
                /\ session' = hset(session, [current_phase |-> "key_insight_synthesis"])
                /\ pc' = "output_formatting"
                /\ raised' = raised
    /\ UNCHANGED upload_vars
    /\ UNCHANGED <<file_paths, api_key, sink_mode, llm_mode, documents,
                   all_insights, unique_insights, insights, themes, report,
                   results, chunk_resp, theme_resp, rerun>>

\* lines 1436-1488, with OutputFormatter.process_with_key_insights
OutputFormatting ==
    /\ pc = "output_formatting"
    /\ phases' = Append(phases, "output_formatting")
    /\ \E lands, agent_lands, done_lands \in SinkWrites :
           IF ~lands
           THEN /\ orchestrator_fails(session, ConnectionError)
                /\ UNCHANGED <<report, results>>
           ELSE LET s1 == hset(session, [current_phase |-> "output_formatting"])
                    s2 == update_session_status(s1, [status |-> "completed"],
                                                agent_lands)
                IN /\ report' = json_report(insights, themes, key_insights,
                                            executive_summary)
                   /\ IF ~done_lands
                      THEN /\ orchestrator_fails(s2, ConnectionError)
                           /\ results' = results
                      ELSE /\ session' = hset(s2, [status |-> "completed",
                                                   current_phase |-> "completed"])
                           /\ results' = run_results(insights, themes)
                           /\ pc' = "completed"
                           /\ raised' = raised
    /\ UNCHANGED upload_vars
    /\ UNCHANGED <<file_paths, api_key, sink_mode, llm_mode, documents,
                   all_insights, unique_insights, insights, themes,
                   key_insights, executive_summary, gen_calls, chunk_resp,
                   theme_resp, card_resp, summary_resp, rerun>>

Next ==
    \/ StartRun
    \/ DocumentIngestion
    \/ InsightAnalysis
    \/ ThemeSynthesis
    \/ KeyInsightSynthesis
    \/ OutputFormatting

Spec == Init /\ [][Next]_vars

-----------------------------------------------------------------------------
(* Claims about a whole run (Spec) *)

InPhases(p) == \E i \in 1..Len(phases) : phases[i] = p

Finished == pc \in {"completed", "failed"}

SentinelQuote == <<"No significant insights found in the provided documents">>

\* C7: in every run that has entered theme synthesis the insight list handed
\* to the later stages is non-empty: it is exactly the one synthetic insight
\* (the "No significant insights found ..." quote, theme "Analysis Result",
\* sentiment Neutral, confidence 1.0) when extraction plus deduplication
\* yielded nothing, and exactly the deduplicated list otherwise; the clusters,
\* the report and the results of the run are built from that list.
C7_SentinelKeepsInsightsNonEmpty ==
    InPhases("theme_synthesis") =>
        /\ insights # <<>>
        /\ unique_insights = <<>> =>
               /\ Len(insights) = 1
               /\ insights[1].quote = SentinelQuote
               /\ insights[1].theme = "Analysis Result"
               /\ insights[1].sentiment = "Neutral"
               /\ insights[1].confidence = 100
        /\ unique_insights # <<>> =>
               /\ insights = unique_insights
               /\ \A i \in 1..Len(insights) : insights[i].quote # SentinelQuote
        /\ InPhases("key_insight_synthesis") =>
               /\ themes # <<>>
               /\ SumSeq([i \in 1..Len(themes) |-> themes[i].frequency]) = Len(insights)
        /\ pc = "completed" =>
               /\ report.summary.total_insights = Len(insights)
               /\ results.insights = insights

\* a completed run whose extractor returned nothing although a chunk was read
C7_Witness ==
    /\ pc = "completed"
    /\ documents # <<>>
    /\ unique_insights = <<>>
    /\ insights = <<NoInsightsFound>>
    /\ Len(themes) = 1
    /\ themes[1].theme_name = "Analysis Result"
    /\ results.results.insights_count = 1

LaterPhases ==
    {"insight_analysis", "theme_synthesis", "key_insight_synthesis",
     "output_formatting"}

NoChunks == ingest(file_paths) = <<>>

\* what failing fast on a batch without chunks means for a finished run
FailedFastOnNoInput ==
    /\ pc = "failed"
    /\ raised = NoDocuments
    /\ get(session, "status", None) = "failed"
    /\ gen_calls = <<>>
    /\ \A p \in LaterPhases : ~InPhases(p)

\* C8: if no document of the batch yields a chunk, the run never issues a
\* generation call, never enters a phase after document ingestion, and ends
\* by raising the "no input" error with the session in status failed.
C8_NoInputFailsFast ==
    NoChunks =>
        /\ pc # "completed"
        /\ gen_calls = <<>>
        /\ \A p \in LaterPhases : ~InPhases(p)
        /\ Finished => FailedFastOnNoInput

\* the same statement for the runs in which every write to the sink lands
C8_NoInputFailsFastSinkOk ==
    sink_mode = "ok" => C8_NoInputFailsFast

\* a batch without chunks failed fast while the sink worked
C8_SinkOkReached ==
    /\ sink_mode = "ok"
    /\ file_paths # <<>>
    /\ NoChunks
    /\ FailedFastOnNoInput

\* a batch without chunks ended with the sink's error instead of the
\* "no input" error, the session not failed
C8_SinkErrorReached ==
    /\ NoChunks
    /\ pc = "failed"
    /\ raised = ConnectionError
    /\ get(session, "status", None) # "failed"

DegradedService == llm_mode \in {"throws", "garbage"}

NoLabeledFields ==
    \A i \in 1..Len(chunk_resp) : response_lines(chunk_resp[i]) = <<>>

MembersLabeled(label) ==
    LET Same(x) == x.theme = label IN SelectSeq(insights, Same)

\* the fallbacks of a completed run
DocumentedFallbacks ==
    /\ raised = None
    /\ get(session, "status", None) = "completed"
    /\ NoLabeledFields => all_insights = <<>>
    /\ \A i \in 1..Len(themes) :
           /\ themes[i].theme_name \in ThemeLabels(insights)
           /\ themes[i].priority = "Medium"
           /\ themes[i].insights = MembersLabeled(themes[i].theme_name)
           /\ themes[i].frequency = Len(themes[i].insights)
           /\ themes[i].summary =
                  "Theme identified from " \o ToString(themes[i].frequency)
                      \o " user insights"
    /\ key_insights = <<>>
    /\ executive_summary =
           [research_question |-> "User research analysis",
            key_finding |-> "0 key insights identified from user research",
            key_insight |-> "Multiple themes emerged from the research",
            recommendation |-> "Review key insights and prioritize implementation",
            context |-> None]

\* C9: with a configured generation service that always throws or always
\* returns unparseable text, and at least one chunk, the run never fails and
\* a completed run shows the fallbacks: no insight from a response without
\* labeled fields, raw-label Medium clusters, no card, the default summary.
C9_DegradedServiceCompletes ==
    (DegradedService /\ api_key /\ ~NoChunks) =>
        /\ pc # "failed"
        /\ pc = "completed" => DocumentedFallbacks

\* the same statement for the runs in which every write to the sink lands
C9_DegradedServiceCompletesSinkOk ==
    sink_mode = "ok" => C9_DegradedServiceCompletes

\* a run against a degraded service completed on its fallbacks
C9_SinkOkReached ==
    /\ sink_mode = "ok"
    /\ DegradedService /\ api_key /\ ~NoChunks
    /\ pc = "completed"
    /\ DocumentedFallbacks
    /\ insights = <<NoInsightsFound>>

\* a run against a degraded service raised the sink's error
C9_SinkErrorReached ==
    /\ DegradedService /\ api_key /\ ~NoChunks
    /\ pc = "failed"
    /\ raised = ConnectionError

-----------------------------------------------------------------------------
(* The key insight synthesizer on its own: SpecCards *)

MaxCards == 6         \* longest array the card prompt is answered with

\* elements of a card response: complete cards with generated numbers, a
\* card with defaults to fill, one with a quote that lacks its text, one
\* with a null title
SparseCard   == [main_finding |-> "Finding"]
BadQuoteCard == [title |-> "Title", main_finding |-> "Finding",
                 supporting_quotes |-> <<[quote |-> "said"], [speaker |-> "P1"]>>]
NullTitleCard == [title |-> Null, main_finding |-> "Finding"]

GoodCards == {Card(1), Card(3), SparseCard}
CardElements == GoodCards \cup {BadQuoteCard, NullTitleCard}

\* arrays of complete cards of every length, and arrays of at most three
\* elements of any kind
CardBatches ==
    {JsonArray(b) : b \in SeqsUpTo({Card(1), Card(3)}, MaxCards)
                          \cup SeqsUpTo(CardElements, 3)}

CardOutcomes ==
    CardBatches \cup {Throws, NotJson, JsonObject(FullSummary),
                      JsonObject([x \in {} |-> Null])}

SummaryOutcomes ==
    {Throws, NotJson, JsonObject(FullSummary),
     JsonObject([FullSummary EXCEPT !.key_finding = Null]),
     JsonObject([research_question |-> "Why"]),
     JsonArray(<<FullSummary>>)}

\* the inputs of process: what the orchestrator hands over
SynthesizerInputs ==
    {<<NoInsightsFound>>, <<insight_data(D1), insight_data(D3)>>}

InitCards ==
    /\ UploadIdle
    /\ EnvIdle
    /\ pc = "cards_input"
    /\ insights \in SynthesizerInputs
    /\ themes = cluster_insights(insights, [l \in ThemeLabels(insights) |-> Throws])
    /\ card_resp \in CardOutcomes
    /\ summary_resp \in SummaryOutcomes
    /\ documents = <<>>
    /\ all_insights = <<>>
    /\ unique_insights = <<>>
    /\ key_insights = <<>>
    /\ executive_summary = None
    /\ report = None
    /\ results = None
    /\ raised = None
    /\ session = <<>>
    /\ phases = <<>>
    /\ gen_calls = <<>>
    /\ chunk_resp = <<>>
    /\ theme_resp = <<>>
    /\ rerun = <<>>

\* KeyInsightSynthesizer.process on the drawn outcomes
SynthesizeOnce ==
    /\ pc = "cards_input"
    /\ synthesize_key_insights(card_resp, summary_resp)
    /\ pc' = "synthesized"
    /\ UNCHANGED upload_vars
    /\ UNCHANGED <<file_paths, api_key, sink_mode, llm_mode, documents,
                   all_insights, unique_insights, insights, themes, report,
                   results, raised, session, phases, chunk_resp, theme_resp,
                   rerun>>

NextCards == SynthesizeOnce

SpecCards == InitCards /\ [][NextCards]_vars

-----------------------------------------------------------------------------
(* Claims about the key insight synthesizer (SpecCards) *)

\* the card call answered with an array whose elements all come from the
\* well-formed ones
WellFormedBatch ==
    /\ card_resp.kind = "json_array"
    /\ \A i \in 1..Len(card_resp.items) : card_resp.items[i] \in GoodCards

\* C10 as stated: for every input and every generation outcome the
\* synthesizer returns between 3 and 5 cards.
C10_ThreeToFiveCards ==
    pc = "synthesized" => Len(key_insights) \in 3..5

\* C10 amended: the synthesizer returns no card when the card call throws or
\* answers with anything but a JSON array, and otherwise either no card or as
\* many cards as the array has elements, whatever that number is; it is as
\* many whenever every element is well formed.
C10_CardCountFollowsResponse ==
    pc = "synthesized" =>
        /\ card_resp.kind # "json_array" => key_insights = <<>>
        /\ card_resp.kind = "json_array" =>
               Len(key_insights) \in {0, Len(card_resp.items)}
        /\ WellFormedBatch => Len(key_insights) = Len(card_resp.items)

\* six well-formed elements became six cards
C10_Witness ==
    /\ pc = "synthesized"
    /\ WellFormedBatch
    /\ Len(card_resp.items) > 5
    /\ Len(key_insights) = Len(card_resp.items)

\* the second call did not answer with an object that carries the four
\* required texts
SummaryCallFailed ==
    \/ summary_resp.kind \in {"throws", "not_json", "json_array"}
    \/ /\ summary_resp.kind = "json_object"
       /\ \E k \in {"research_question", "key_finding", "key_insight",
                    "recommendation"} :
              k \notin DOMAIN summary_resp.data \/ summary_resp.data[k] = Null

IsExecutiveSummary(x) ==
    DOMAIN x = {"research_question", "key_finding", "key_insight",
                "recommendation", "context"}

\* C11: every synthesis returns one executive summary; when the second call
\* throws or its answer is not a valid summary, it is the default one, whose
\* key_finding counts the cards the first call produced and whose
\* recommendation is the fixed text; otherwise it is the generated summary.
C11_OneSummaryDefaultOnFailure ==
    pc = "synthesized" =>
        /\ IsExecutiveSummary(executive_summary)
        /\ SummaryCallFailed =>
               /\ executive_summary.key_finding =
                      ToString(Len(key_insights))
                          \o " key insights identified from user research"
               /\ executive_summary.recommendation =
                      "Review key insights and prioritize implementation"
               /\ executive_summary.research_question = "User research analysis"
               /\ executive_summary.key_insight =
                      "Multiple themes emerged from the research"
               /\ executive_summary.context = None
        /\ ~SummaryCallFailed =>
               \A k \in DOMAIN summary_resp.data :
                   executive_summary[k] = summary_resp.data[k]

\* three cards were produced and the summary call threw
C11_Witness ==
    /\ pc = "synthesized"
    /\ Len(key_insights) = 3
    /\ summary_resp = Throws
    /\ executive_summary.key_finding = "3 key insights identified from user research"

\* the i-th stored card was built from the i-th element of the batch
BuiltFrom(card, element, i) ==
    /\ card.title =
           (IF "title" \in DOMAIN element THEN element["title"]
            ELSE "Insight #" \o ToString(i))
    /\ card.finding_type =
           (IF "finding_type" \in DOMAIN element THEN element["finding_type"]
            ELSE "neutral")
    /\ Len(card.supporting_quotes) =
           (IF "supporting_quotes" \in DOMAIN element
            THEN Len(element["supporting_quotes"]) ELSE 0)

\* C12: a card batch of N well-formed elements is stored as N cards in the
\* order of the batch with insight_number 1, 2, ..., N, whatever numbers the
\* generated content carries; generated numbers [3, 3, 1] are stored as
\* [1, 2, 3]; any stored card list is numbered 1..N.
C12_CardsRenumberedInBatchOrder ==
    pc = "synthesized" =>
        /\ \A i \in 1..Len(key_insights) : key_insights[i].insight_number = i
        /\ WellFormedBatch =>
               /\ Len(key_insights) = Len(card_resp.items)
               /\ \A i \in 1..Len(key_insights) :
                      BuiltFrom(key_insights[i], card_resp.items[i], i)
        /\ card_resp = JsonArray(<<Card(3), Card(3), Card(1)>>) =>
               [i \in 1..Len(key_insights) |-> key_insights[i].insight_number]
                   = <<1, 2, 3>>

\* the batch numbered [3, 3, 1] was stored
C12_Witness ==
    /\ pc = "synthesized"
    /\ card_resp = JsonArray(<<Card(3), Card(3), Card(1)>>)
    /\ Len(key_insights) = 3
    /\ key_insights[3].insight_number = 3

\* a batch whose order shows in the stored cards
C12_OrderWitness ==
    /\ pc = "synthesized"
    /\ card_resp = JsonArray(<<SparseCard, Card(3)>>)
    /\ key_insights[1].title = "Insight #1"
    /\ key_insights[2].title = "Title"

-----------------------------------------------------------------------------
(* More claims about a whole run (Spec) *)

CallsAt(site) == SelectSeq(gen_calls, LAMBDA c : c.site = site)

CardCallFailed ==
    /\ CallsAt("cards") # <<>>
    /\ card_resp.kind \in {"throws", "not_json"}

\* C13: when the card generation call throws or its response does not parse,
\* the card list is empty (no placeholder card), the stage does not raise: the
\* executive summary call is issued after it and the run moves on to output
\* formatting, where the report is assembled with zero cards; a run that
\* ends failed after that ends on the sink's error, never on the card call's.
C13_CardFailureGivesNoCards ==
    CardCallFailed =>
        /\ key_insights = <<>>
        /\ CallsAt("summary") # <<>>
        /\ IsExecutiveSummary(executive_summary)
        /\ pc \in {"output_formatting", "completed", "failed"}
        /\ pc = "failed" => InPhases("output_formatting") /\ raised = ConnectionError
        /\ pc = "completed" =>
               /\ report.key_insights = <<>>
               /\ report.summary.key_insights_count = 0
               /\ report.summary.quotes_extracted = 0
               /\ report.executive_summary = executive_summary

\* a run completed although the card call threw while the summary call
\* answered
C13_Witness ==
    /\ pc = "completed"
    /\ card_resp = Throws
    /\ summary_resp = JsonObject(FullSummary)
    /\ key_insights = <<>>
    /\ report.summary.key_insights_count = 0
    /\ executive_summary.key_finding = "Finding"

-----------------------------------------------------------------------------
(* The extractor on its own: SpecExtract *)

MaxChunks == 2        \* most chunks handed to the extractor alone

NoTheme == [quote |-> <<"q", "5">>, sentiment |-> "Positive",
            confidence |-> 90, context |-> "ctx"]
NoSentiment == [quote |-> <<"q", "6">>, theme |-> "Nav",
                confidence |-> 90, context |-> "ctx"]

Line(label, text) == [label |-> label, text |-> text]

\* two complete records; the second has no Sentiment and no Confidence line
TwoRecords ==
    NotJsonText(<<Line("Quote", <<"q", "7">>), Line("Theme", "Search"),
                  Line("Sentiment", "Negative"), Line("Confidence", "0.9"),
                  Line("Context", "first"),
                  Line("Quote", <<"q", "8">>), Line("Theme", "Nav"),
                  Line("Context", "second")>>)

\* a record without a Quote line, closed, followed by a record without a
\* Theme line, closed, followed by text without label
BrokenRecords ==
    NotJsonText(<<Line("Theme", "Nav"), Line("Sentiment", "Negative"),
                  Line("Context", "first"),
                  Line("Quote", <<"q", "9">>), Line("Context", "second"),
                  Line("Other", "text")>>)

\* a record that is never closed by a Context line
OpenRecord ==
    NotJsonText(<<Line("Quote", <<"q", "9">>), Line("Theme", "Nav"),
                  Line("Sentiment", "Negative")>>)

\* a record whose Quote line carries no text
EmptyQuoteRecord ==
    NotJsonText(<<Line("Quote", <<>>), Line("Theme", "Nav"),
                  Line("Context", "ctx")>>)

\* a complete object whose quote is the empty string
EmptyQuote == [quote |-> <<>>, theme |-> "Nav", sentiment |-> "Neutral",
               confidence |-> 90, context |-> "ctx"]

ExtractResponses ==
    {Throws, NotJson, LabeledText, TwoRecords, BrokenRecords, OpenRecord,
     EmptyQuoteRecord, JsonArray(<<EmptyQuote>>),
     JsonArray(<<D1, D3>>), JsonArray(<<D2>>), JsonArray(<<>>), JsonObject(D3),
     JsonArray(<<D1, NoConfidence>>), JsonArray(<<NoTheme>>),
     JsonArray(<<NoSentiment>>)}

Chunks(n) == [i \in 1..n |-> [source |-> 1, chunk_id |-> i - 1, total_chunks |-> n]]

InitExtract ==
    /\ UploadIdle
    /\ EnvIdle
    /\ pc = "extract_input"
    /\ \E n \in 0..MaxChunks :
           /\ documents = Chunks(n)
           /\ chunk_resp \in [1..n -> ExtractResponses]
    /\ all_insights = <<>>
    /\ unique_insights = <<>>
    /\ insights = <<>>
    /\ themes = <<>>
    /\ key_insights = <<>>
    /\ executive_summary = None
    /\ report = None
    /\ results = None
    /\ raised = None
    /\ session = <<>>
    /\ phases = <<>>
    /\ gen_calls = <<>>
    /\ theme_resp = <<>>
    /\ card_resp = None
    /\ summary_resp = None
    /\ rerun = <<>>

\* InsightAnalyzer.process on the drawn responses
ExtractOnce ==
    /\ pc = "extract_input"
    /\ analyze_insights(chunk_resp)
    /\ pc' = "extracted"
    /\ UNCHANGED upload_vars
    /\ UNCHANGED <<file_paths, api_key, sink_mode, llm_mode, documents,
                   insights, themes, key_insights, executive_summary, report,
                   results, raised, session, phases, theme_resp, card_resp,
                   summary_resp, rerun>>

NextExtract == ExtractOnce

SpecExtract == InitExtract /\ [][NextExtract]_vars

-----------------------------------------------------------------------------
(* Claims about the extractor (SpecExtract) *)

\* the objects a response parses to
ParsedObjects(resp) ==
    CASE resp.kind = "json_array"  -> resp.items
      [] resp.kind = "json_object" -> <<resp.data>>
      [] OTHER -> <<>>

\* the Insight the contract maps a parsed object to
DefaultedInsight(d) ==
    [quote |-> d["quote"],
     speaker |-> IF "speaker" \in DOMAIN d THEN d["speaker"] ELSE None,
     theme |-> IF "theme" \in DOMAIN d THEN d["theme"] ELSE "General",
     sentiment |-> IF "sentiment" \in DOMAIN d THEN d["sentiment"] ELSE "Neutral",
     confidence |-> IF "confidence" \in DOMAIN d THEN d["confidence"] ELSE 50,
     context |-> IF "context" \in DOMAIN d THEN d["context"] ELSE "",
     timestamp |-> IF "timestamp" \in DOMAIN d THEN d["timestamp"] ELSE None]

Extracted(x) == \E j \in 1..Len(all_insights) : all_insights[j] = x

HasAllRequired(d) ==
    {"quote", "theme", "sentiment", "confidence", "context"} \subseteq DOMAIN d

\* C14: every object of a chunk response that parses as JSON is mapped to an
\* Insight, a missing confidence becoming 0.5, a missing theme "General", a
\* missing sentiment "Neutral", a missing speaker or timestamp None.
C14_JsonDefaults ==
    pc = "extracted" =>
        \A i \in 1..Len(chunk_resp) :
            \A k \in 1..Len(ParsedObjects(chunk_resp[i])) :
                Extracted(DefaultedInsight(ParsedObjects(chunk_resp[i])[k]))

\* the same statement for the responses whose objects all carry the five
\* required fields
C14_CompleteObjectsMapped ==
    pc = "extracted" =>
        \A i \in 1..Len(chunk_resp) :
            (\A k \in 1..Len(ParsedObjects(chunk_resp[i])) :
                 HasAllRequired(ParsedObjects(chunk_resp[i])[k]))
            => \A k \in 1..Len(ParsedObjects(chunk_resp[i])) :
                   Extracted(DefaultedInsight(ParsedObjects(chunk_resp[i])[k]))

\* an array with a complete object and one without confidence gave nothing
C14_ChunkLost ==
    /\ pc = "extracted"
    /\ chunk_resp = <<JsonArray(<<D1, NoConfidence>>)>>
    /\ all_insights = <<>>

MaxOf(S) == CHOOSE x \in S : \A y \in S : y <= x

\* first line of the record that the Context line at p closes
RecordStart(lines, p) ==
    1 + MaxOf({0} \cup {q \in 1..(p - 1) : lines[q].label = "Context"})

\* position of the last line with this label in that record, 0 if none
LastLine(lines, p, label) ==
    MaxOf({0} \cup {q \in RecordStart(lines, p)..(p - 1) : lines[q].label = label})

ClosesRecord(lines, p) == lines[p].label = "Context"

ClosesInsight(lines, p) ==
    /\ ClosesRecord(lines, p)
    /\ LastLine(lines, p, "Quote") > 0
    /\ LastLine(lines, p, "Theme") > 0

\* the Insight assembled from the record that the Context line at p closes
RecordInsight(lines, p) ==
    LET s == LastLine(lines, p, "Sentiment")
        c == LastLine(lines, p, "Confidence")
    IN [quote |-> lines[LastLine(lines, p, "Quote")].text,
        speaker |-> None,
        theme |-> lines[LastLine(lines, p, "Theme")].text,
        sentiment |-> IF s = 0 THEN "Neutral" ELSE lines[s].text,
        confidence |-> IF c = 0 THEN 50
                       ELSE IF lines[c].text = "0.9" THEN 90
                       ELSE IF lines[c].text = "1.0" THEN 100
                       ELSE 50,
        context |-> lines[p].text,
        timestamp |-> None]

Positions(lines) == [i \in 1..Len(lines) |-> i]

\* one Insight for every Context line
InsightPerContextLine(lines) ==
    SelectSeq(Positions(lines), LAMBDA p : ClosesRecord(lines, p))

\* one Insight for every Context line whose record has a Quote and a Theme
InsightPerCompleteRecord(lines) ==
    LET at == SelectSeq(Positions(lines), LAMBDA p : ClosesInsight(lines, p))
    IN [k \in 1..Len(at) |-> RecordInsight(lines, at[k])]

OneLabeledChunk ==
    /\ pc = "extracted"
    /\ Len(chunk_resp) = 1
    /\ chunk_resp[1].kind = "not_json"

\* C15 as stated: the labeled-line parser assembles one Insight each time a
\* record is closed by a Context line.
C15_InsightPerContextLine ==
    OneLabeledChunk =>
        Len(all_insights) = Len(InsightPerContextLine(chunk_resp[1].lines))

\* C15 amended: the labeled-line parser assembles one Insight each time a
\* Context line closes a record in which a Quote and a Theme line were seen
\* since the previous Context line, from the last Quote, Theme, Sentiment and
\* Confidence of that record (Sentiment Neutral and Confidence 0.5 when
\* absent, Confidence 0.5 when not a number); a closed record without Quote or
\* Theme gives no Insight, and no field is carried into the next record.
C15_InsightPerCompleteRecord ==
    OneLabeledChunk =>
        all_insights = InsightPerCompleteRecord(chunk_resp[1].lines)

\* a record with the confidence "high" was assembled with 0.5
C15_Witness ==
    /\ OneLabeledChunk
    /\ chunk_resp[1] = LabeledText
    /\ Len(all_insights) = 1
    /\ all_insights[1].confidence = 50

\* two closed records, neither with both Quote and Theme, gave no Insight
C15_NoLeakWitness ==
    /\ OneLabeledChunk
    /\ chunk_resp[1] = BrokenRecords
    /\ all_insights = <<>>

\* what one chunk contributes: nothing when the call throws or neither
\* parser decodes the response
ChunkContribution(resp) ==
    CASE resp.kind = "throws" -> <<>>
      [] resp.kind = "not_json" -> InsightPerCompleteRecord(resp.lines)
      [] OTHER ->
           IF \A k \in 1..Len(ParsedObjects(resp)) : HasAllRequired(ParsedObjects(resp)[k])
           THEN [k \in 1..Len(ParsedObjects(resp)) |->
                     DefaultedInsight(ParsedObjects(resp)[k])]
           ELSE <<>>

RECURSIVE InChunkOrder(_)
InChunkOrder(resps) ==
    IF resps = <<>> THEN <<>>
    ELSE ChunkContribution(Head(resps)) \o InChunkOrder(Tail(resps))

ChunkFailed(resp) ==
    \/ resp.kind = "throws"
    \/ resp.kind = "not_json" /\ InsightPerCompleteRecord(resp.lines) = <<>>

\* C16: a chunk whose call throws or whose response neither parser decodes
\* contributes no insight and does not stop InsightAnalyzer.process: one call
\* is issued for every chunk, in chunk order, and the list before the
\* deduplication is the contributions of the chunks in chunk order.
C16_ChunkFailuresIsolated ==
    pc = "extracted" =>
        /\ all_insights = InChunkOrder(chunk_resp)
        /\ gen_calls = [i \in 1..Len(documents) |->
                            [site |-> "chunk", key |-> ToString(i)]]
        /\ unique_insights = deduplicate_insights(all_insights)

\* a throwing chunk followed by a chunk with two insights
C16_Witness ==
    /\ pc = "extracted"
    /\ Len(chunk_resp) = 2
    /\ ChunkFailed(chunk_resp[1])
    /\ chunk_resp[1] = Throws
    /\ chunk_resp[2] = JsonArray(<<D1, D3>>)
    /\ Len(all_insights) = 2
    /\ all_insights[1].quote = D1.quote
    /\ all_insights[2].quote = D3.quote
    /\ Len(gen_calls) = 2

-----------------------------------------------------------------------------
(* The ingestor on its own: SpecIngest *)

LongDocx    == [ext |-> ".docx", readable |-> TRUE,  text_chunks |-> 2]
LongPdf     == [ext |-> ".pdf",  readable |-> TRUE,  text_chunks |-> 2]
CorruptDoc  == [ext |-> ".doc",  readable |-> FALSE, text_chunks |-> 1]
UnknownFile == [ext |-> ".md",   readable |-> TRUE,  text_chunks |-> 2]

IngestFiles == Files \cup {LongDocx, LongPdf, CorruptDoc, UnknownFile}

InitIngest ==
    /\ UploadIdle
    /\ file_paths \in SeqsUpTo(IngestFiles, MaxFiles)
    /\ api_key = TRUE
    /\ sink_mode = "ok"
    /\ llm_mode = "normal"
    /\ pc = "ingest_input"
    /\ RunIdle
    /\ all_insights = <<>>
    /\ unique_insights = <<>>
    /\ insights = <<>>
    /\ themes = <<>>
    /\ theme_resp = <<>>
    /\ rerun = <<>>

\* DocumentIngestor.process on the drawn batch
IngestOnce ==
    /\ pc = "ingest_input"
    /\ documents' = ingest(file_paths)
    /\ pc' = "ingested"
    /\ UNCHANGED upload_vars
    /\ UNCHANGED <<file_paths, api_key, sink_mode, llm_mode, all_insights,
                   unique_insights, insights, themes, key_insights,
                   executive_summary, report, results, raised, session, phases,
                   gen_calls, chunk_resp, theme_resp, card_resp, summary_resp,
                   rerun>>

NextIngest == IngestOnce

SpecIngest == InitIngest /\ [][NextIngest]_vars

-----------------------------------------------------------------------------
(* Claims about the ingestor (SpecIngest) *)

\* the text of the file cannot be extracted
ExtractionFails(file) ==
    \/ ~file.readable
    \/ file.ext \notin {".pdf", ".docx", ".doc", ".txt"}

ChunksOf(p) == SelectSeq(documents, LAMBDA c : c.source = p)

\* C17: a document whose text extraction fails (corrupt or of an unsupported
\* format) gives no chunk and does not stop DocumentIngestor.process: every
\* other document gives all its chunks, and the chunks are returned in file
\* order, those of one file in the order of the text.
C17_DocumentFailuresIsolated ==
    pc = "ingested" =>
        /\ \A p \in 1..Len(file_paths) :
               /\ ExtractionFails(file_paths[p]) => ChunksOf(p) = <<>>
               /\ ~ExtractionFails(file_paths[p]) =>
                      /\ Len(ChunksOf(p)) = file_paths[p].text_chunks
                      /\ \A k \in 1..Len(ChunksOf(p)) :
                             /\ ChunksOf(p)[k].chunk_id = k - 1
                             /\ ChunksOf(p)[k].total_chunks = file_paths[p].text_chunks
        /\ \A i \in 1..Len(documents) :
               /\ documents[i].source \in 1..Len(file_paths)
               /\ \A j \in (i + 1)..Len(documents) :
                      documents[i].source <= documents[j].source

\* a corrupt file and an unsupported file before a file of two chunks
C17_Witness ==
    /\ pc = "ingested"
    /\ Len(file_paths) = 2
    /\ ExtractionFails(file_paths[1])
    /\ file_paths[2] = LongDocx
    /\ Len(documents) = 2
    /\ documents[1].source = 2

-----------------------------------------------------------------------------
(* Claims about the report, the order of the stages and the calls (Spec) *)

SupportingQuotes == [i \in 1..Len(key_insights) |-> Len(key_insights[i].supporting_quotes)]

FilesWithChunks ==
    Cardinality({p \in 1..Len(file_paths) :
                     \E i \in 1..Len(documents) : documents[i].source = p})

\* the four counts of the summary block that are taken from the collections
CountsFromCollections ==
    /\ report.summary.total_insights = Len(insights)
    /\ report.summary.themes_identified = Len(themes)
    /\ report.summary.key_insights_count = Len(key_insights)
    /\ report.summary.quotes_extracted = SumSeq(SupportingQuotes)

\* C18: every numeric field of the report's summary block is computed from
\* the collections of the run: the insight, cluster, card and supporting
\* quote counts, and files_processed, the number of files of the batch.
C18_SummaryFieldsComputed ==
    pc = "completed" =>
        /\ CountsFromCollections
        /\ report.summary.files_processed \in {Len(file_paths), FilesWithChunks}

\* the four counts alone
C18_CountsComputed ==
    pc = "completed" => CountsFromCollections

\* the report of a batch of one file states five files
C18_FixedFileCount ==
    /\ pc = "completed"
    /\ Len(file_paths) = 1
    /\ CountsFromCollections
    /\ report.summary.quotes_extracted = 3
    /\ report.summary.files_processed = 5

StageOrder ==
    <<"document_ingestion", "insight_analysis", "theme_synthesis",
      "key_insight_synthesis", "output_formatting">>

\* position of a recorded current_phase in the course of a run
PhaseRank(p) ==
    CASE p = "initialization" -> 0
      [] p = "completed" -> Len(StageOrder) + 1
      [] OTHER -> CHOOSE i \in 1..Len(StageOrder) : StageOrder[i] = p

RecordedRank(sess) ==
    IF "current_phase" \in DOMAIN sess THEN PhaseRank(sess["current_phase"]) ELSE 0

SiteRank(site) ==
    CASE site = "chunk" -> 2 [] site = "theme" -> 3 [] site = "cards" -> 4
      [] site = "summary" -> 4

\* the stages entered are an initial part of the order, each once; every
\* call was issued by a stage that was entered, the calls of a stage after
\* those of the stage before; a stage is entered with the complete output of
\* the stage before
StagesInOrder ==
    /\ Len(phases) <= Len(StageOrder)
    /\ \A i \in 1..Len(phases) : phases[i] = StageOrder[i]
    /\ \A i \in 1..Len(gen_calls) :
           /\ SiteRank(gen_calls[i].site) <= Len(phases)
           /\ \A j \in (i + 1)..Len(gen_calls) :
                  SiteRank(gen_calls[i].site) <= SiteRank(gen_calls[j].site)
    /\ Len(phases) >= 2 => documents = ingest(file_paths) /\ documents # <<>>
    /\ Len(phases) >= 3 =>
           /\ Len(CallsAt("chunk")) = Len(documents)
           /\ insights = substitute_sentinel(unique_insights)
    /\ Len(phases) >= 4 =>
           /\ themes # <<>>
           /\ SumSeq([i \in 1..Len(themes) |-> themes[i].frequency]) = Len(insights)
    /\ Len(phases) >= 5 =>
           /\ IsExecutiveSummary(executive_summary)
           /\ Len(CallsAt("cards")) = 1 /\ Len(CallsAt("summary")) = 1
    /\ RecordedRank(session) <= Len(phases) + (IF pc = "completed" THEN 1 ELSE 0)

\* a step enters at most the next stage and never moves the recorded phase
\* back
StepsForward ==
    /\ Len(phases') \in {Len(phases), Len(phases) + 1}
    /\ RecordedRank(session') >= RecordedRank(session)

\* C19: within one run the stages are entered strictly in the order
\* document_ingestion, insight_analysis, theme_synthesis,
\* key_insight_synthesis, output_formatting, none twice, each with the
\* complete output of the one before and before its first generation call,
\* and the recorded current_phase only moves forward along this order.
C19_StagesStrictlySequential ==
    [](StagesInOrder) /\ [][StepsForward]_vars

\* a completed run: all five stages entered, calls of three stages issued
C19_Witness ==
    /\ pc = "completed"
    /\ phases = StageOrder
    /\ Len(CallsAt("chunk")) = 2
    /\ Len(CallsAt("theme")) = 2
    /\ Len(CallsAt("cards")) = 1
    /\ RecordedRank(session) = Len(StageOrder) + 1

CallsFor(site, key) ==
    Len(SelectSeq(gen_calls, LAMBDA c : c.site = site /\ c.key = key))

ChunkKeys == {ToString(i) : i \in 1..Len(documents)}

\* C20: no generation call is repeated: at most one call per chunk, and
\* exactly one for every chunk once the extractor has run; at most one per
\* theme group, and one for every group once the clusterer has run; at most
\* one card call and one summary call; each whatever the call's outcome, and
\* no call for anything else.
C20_CallsAtMostOnce ==
    /\ \A i \in 1..Len(gen_calls) :
           \/ gen_calls[i].site = "chunk" /\ gen_calls[i].key \in ChunkKeys
           \/ gen_calls[i].site = "theme" /\ gen_calls[i].key \in ThemeLabels(insights)
           \/ gen_calls[i] \in {[site |-> "cards", key |-> "cards"],
                                [site |-> "summary", key |-> "summary"]}
    /\ \A k \in ChunkKeys :
           CallsFor("chunk", k) = (IF CallsAt("chunk") # <<>> THEN 1 ELSE 0)
    /\ Len(phases) >= 3 => CallsAt("chunk") # <<>>
    /\ \A l \in ThemeLabels(insights) :
           CallsFor("theme", l) = (IF CallsAt("theme") # <<>> THEN 1 ELSE 0)
    /\ Len(phases) >= 4 => CallsAt("theme") # <<>>
    /\ CallsFor("cards", "cards") <= 1
    /\ CallsFor("summary", "summary") <= 1
    /\ Len(phases) >= 5 =>
           CallsFor("cards", "cards") = 1 /\ CallsFor("summary", "summary") = 1

\* two chunks, a throwing call, an unparseable and a parsed answer: one call
\* each
C20_Witness ==
    /\ pc = "completed"
    /\ Len(documents) = 2
    /\ chunk_resp = <<Throws, JsonArray(<<D1, D3>>)>>
    /\ \E l \in ThemeLabels(insights) : theme_resp[l] = NotJson
    /\ card_resp = Throws
    /\ Len(gen_calls) = 6

-----------------------------------------------------------------------------
(* Claims about the status sink and the end of a run (Spec) *)

\* how a run on these inputs ends when every write to the sink lands
OutcomeWithWorkingSink ==
    IF NoChunks THEN [pc |-> "failed", raised |-> NoDocuments]
    ELSE IF ~api_key THEN [pc |-> "failed", raised |-> ApiKeyRequired]
    ELSE [pc |-> "completed", raised |-> None]

SameOutcome ==
    Finished => [pc |-> pc, raised |-> raised] = OutcomeWithWorkingSink

\* C21: the sink is fire-and-forget: a run whose sink is down from the start
\* or drops a single write ends as the run on the same inputs with a working
\* sink ends (completed, or raising the same error), with the same products.
C21_SinkFireAndForget ==
    /\ SameOutcome
    /\ pc = "completed" =>
           /\ results.insights = insights
           /\ report.key_insights = key_insights
           /\ report.executive_summary = executive_summary

\* the reference itself: with a working sink the runs end as stated
C21_OutcomeWithWorkingSinkHolds ==
    sink_mode = "ok" => SameOutcome

\* with the sink down a run on a readable file and a configured service
\* raised the sink's error before it ingested anything
C21_SinkErrorRaised ==
    /\ sink_mode = "down"
    /\ ~NoChunks /\ api_key
    /\ pc = "failed"
    /\ raised = ConnectionError
    /\ phases = <<>>
    /\ documents = <<>>

\* a single dropped write ended a run that had extracted insights
C21_DroppedWriteRaised ==
    /\ sink_mode = "flaky"
    /\ pc = "failed"
    /\ raised = ConnectionError
    /\ unique_insights # <<>>
    /\ InPhases("theme_synthesis")

\* the except branch has recorded the failure that it re-raises
FailureRecorded ==
    /\ get(session, "status", None) = "failed"
    /\ get(session, "error_message", None) = raised

\* nothing runs after the failure: no stage, no call, no write to the sink
EndsRun ==
    pc = "failed" =>
        /\ pc' = "failed"
        /\ phases' = phases
        /\ gen_calls' = gen_calls
        /\ session' = session
        /\ results' = results

\* the exception of a run that no write to the sink disturbs
UnabsorbedException ==
    IF NoChunks THEN NoDocuments ELSE ApiKeyRequired

\* C22: an exception that no stage's fallback absorbs ends the run: the
\* orchestrator records status failed with the error message, re-raises it,
\* runs no further stage, retries nothing and never records completed.
C22_UnabsorbedExceptionEndsRun ==
    /\ [](pc = "failed" => raised # None /\ FailureRecorded)
    /\ [][EndsRun]_vars

\* the same with every write to the sink landing
C22_UnabsorbedExceptionEndsRunSinkOk ==
    /\ [](sink_mode = "ok" /\ pc = "failed" =>
              raised = UnabsorbedException /\ FailureRecorded)
    /\ [][EndsRun]_vars

\* a missing API key ended a run after ingestion, and the failure is recorded
C22_MissingKeyRecorded ==
    /\ sink_mode = "ok"
    /\ pc = "failed"
    /\ raised = ApiKeyRequired
    /\ documents # <<>>
    /\ FailureRecorded
    /\ ~InPhases("theme_synthesis")

\* a missing API key ended a run whose handler then failed to write: the
\* caller sees the sink's error and the session still says processing
C22_FailureNotRecorded ==
    /\ ~api_key
    /\ InPhases("insight_analysis")
    /\ pc = "failed"
    /\ raised = ConnectionError
    /\ get(session, "status", None) = "processing"

-----------------------------------------------------------------------------
(* Claims about what the stages leave alone (Spec) *)

\* the stages that are handed the insight list, and those handed the clusters
InsightReaders == {"theme_synthesis", "key_insight_synthesis", "output_formatting"}
ClusterReaders == {"key_insight_synthesis", "output_formatting"}

\* a stage returns and its inputs are what they were
InputsKept ==
    /\ pc \in InsightReaders => insights' = insights
    /\ pc \in ClusterReaders => themes' = themes

\* the list that entered theme synthesis is the one the analysis stage made
EnteredThemeSynthesis == substitute_sentinel(unique_insights)

\* C23: no stage mutates a collection it did not create: the insight list is
\* the same, in the same order, after the Theme Clusterer, the Key-Insight
\* Synthesizer and the Report Assembler return, the cluster list is unchanged
\* by the latter two, and the "insights" array of the results equals the list
\* that entered theme synthesis.
C23_StagesKeepTheirInputs ==
    /\ [][InputsKept]_vars
    /\ [](pc \in InsightReaders \/ pc = "completed" =>
              insights = EnteredThemeSynthesis)
    /\ [](pc \in ClusterReaders \/ pc = "completed" =>
              themes = cluster_insights(insights, theme_resp))
    /\ [](pc = "completed" =>
              /\ results.insights = EnteredThemeSynthesis
              /\ report.insights = EnteredThemeSynthesis)

\* a completed run whose list had two insights, in two clusters
C23_Witness ==
    /\ pc = "completed"
    /\ Len(insights) >= 2
    /\ insights[1] # insights[2]
    /\ Len(themes) >= 2
    /\ results.insights = insights

-----------------------------------------------------------------------------
(* Claims about the priority of a cluster (SpecCluster) *)

\* responses that parse, with every "priority" the prompt allows and with none
PriorityResponses ==
    {JsonObject([FullTheme EXCEPT !.priority = p]) : p \in {"High", "Medium", "Low"}}
        \cup {JsonObject(<<>>)}

\* C24: the priority of a cluster depends on its members and on whether the
\* response parsed, never on the "priority" the response carries: creating the
\* cluster again from the same group with any other parsed response gives the
\* stored priority.
C24_GeneratedPriorityIgnored ==
    pc = "clustered" =>
        \A i \in 1..Len(themes) :
            NormalPath(themes[i]) =>
                \A r \in PriorityResponses :
                    create_theme_cluster(LabelOf(themes[i]), themes[i].insights,
                                         r).priority
                        = themes[i].priority

\* a group of two was answered with priority High and is stored as Low, and a
\* group answered with priority Low is stored as High
C24_Witness ==
    /\ pc = "clustered"
    /\ \E i, j \in 1..Len(themes) :
           /\ NormalPath(themes[i]) /\ NormalPath(themes[j])
           /\ get(theme_resp[LabelOf(themes[i])].data, "priority", None) = "High"
           /\ themes[i].priority = "Low"
           /\ get(theme_resp[LabelOf(themes[j])].data, "priority", None) = "Low"
           /\ themes[j].priority = "High"

-----------------------------------------------------------------------------
(* Claims about the quotes of the extracted insights (SpecExtract) *)

\* C25: every Insight the Extractor emits, through the strict JSON path or
\* through the labeled-line fallback path, has a non-empty quote.
C25_QuoteNonEmpty ==
    pc = "extracted" =>
        /\ \A i \in 1..Len(all_insights) : all_insights[i].quote # <<>>
        /\ \A i \in 1..Len(unique_insights) : unique_insights[i].quote # <<>>

\* a labeled record whose Quote line carries no text became an Insight
C25_EmptyQuoteFromLines ==
    /\ pc = "extracted"
    /\ Len(documents) = 1
    /\ chunk_resp[1] = EmptyQuoteRecord
    /\ Len(unique_insights) = 1
    /\ unique_insights[1].quote = <<>>
    /\ unique_insights[1].theme = "Nav"

\* a parsed object whose quote is the empty string became an Insight
C25_EmptyQuoteFromJson ==
    /\ pc = "extracted"
    /\ Len(documents) = 1
    /\ chunk_resp[1] = JsonArray(<<EmptyQuote>>)
    /\ Len(unique_insights) = 1
    /\ unique_insights[1].quote = <<>>

-----------------------------------------------------------------------------
(* Claims about Low and Medium clusters in the sorted list (SpecCluster) *)

LowBeforeMedium(a, b) ==
    /\ a < b
    /\ themes[a].priority = "Low"
    /\ themes[b].priority = "Medium"

-----------------------------------------------------------------------------
(* Claims about the counters of a completed run (Spec) *)

CounterMatches ==
    /\ get(session, "insights_extracted", None) = results.results.insights_count
    /\ get(session, "insights_extracted", None) = report.summary.total_insights

\* C27: at the end of every completed run the insights_extracted counter last
\* written to the sink equals the number of insights in the results
\* (results.insights_count and summary.total_insights), also in the runs where
\* the sentinel insight was substituted.
C27_CounterMatchesResults ==
    pc = "completed" => CounterMatches

\* the counter matches in the runs that extracted something
C27_CounterMatchesWithoutSentinel ==
    (pc = "completed" /\ unique_insights # <<>>) => CounterMatches

\* a completed run with the sentinel: the sink says 0, the results say 1
C27_SentinelCountedOnlyInResults ==
    /\ pc = "completed"
    /\ unique_insights = <<>>
    /\ insights = <<NoInsightsFound>>
    /\ get(session, "insights_extracted", None) = 0
    /\ results.results.insights_count = 1
    /\ report.summary.total_insights = 1

-----------------------------------------------------------------------------
(* Claims about a batch of cards with a bad element (SpecCards) *)

\* elements the loop body cannot turn into a card: a supporting quote without
\* its text, a null title
FailingElements == {BadQuoteCard, NullTitleCard}

HasFailingElement ==
    /\ card_resp.kind = "json_array"
    /\ \E i \in 1..Len(card_resp.items) : card_resp.items[i] \in FailingElements

\* one card for every element of the array, in its place
OneCardPerElement ==
    /\ card_resp.kind = "json_array"
    /\ Len(key_insights) = Len(card_resp.items)
    /\ \A i \in 1..Len(key_insights) :
           /\ key_insights[i].insight_number = i
           /\ key_insights[i].main_finding = card_resp.items[i].main_finding

\* C28: card generation is all-or-nothing: the returned list is empty or has
\* one card for every element of the parsed array; when a single element, or
\* one of its supporting quotes, fails validation, no card of the batch is
\* returned, never a proper non-empty part of it.
C28_CardsAllOrNothing ==
    pc = "synthesized" =>
        /\ key_insights = <<>> \/ OneCardPerElement
        /\ HasFailingElement => key_insights = <<>>

\* two good elements followed by one whose quote lacks its text: the two cards
\* already built are not returned
C28_Witness ==
    /\ pc = "synthesized"
    /\ card_resp.kind = "json_array"
    /\ Len(card_resp.items) = 3
    /\ card_resp.items[1] \in GoodCards
    /\ card_resp.items[2] \in GoodCards
    /\ card_resp.items[3] = BadQuoteCard
    /\ key_insights = <<>>

-----------------------------------------------------------------------------
(* The process-files endpoint on its own: SpecUpload (src/main.py) *)

MaxUploads == 2       \* most files in one request

\* line 60
allowed_extensions == {".pdf", ".docx", ".doc", ".txt", ".csv"}

\* Path(file.filename).suffix.lower(), line 61
suffix_lower(ext) ==
    CASE ext = ".TXT" -> ".txt"
      [] ext = ".PDF" -> ".pdf"
      [] OTHER -> ext

\* an uploaded file: whether it carries a filename, the suffix of the
\* filename, and what an ingestor would find in its content
Upload(named, ext, readable, text_chunks) ==
    [named |-> named, ext |-> ext, readable |-> readable,
     text_chunks |-> text_chunks]

Uploads ==
    {Upload(TRUE, e, TRUE, 1) :
         e \in {".pdf", ".docx", ".doc", ".txt", ".csv", ".TXT", ".exe", ""}}
        \cup {Upload(FALSE, "", TRUE, 1), Upload(TRUE, ".txt", TRUE, 0),
              Upload(TRUE, ".pdf", FALSE, 1)}

\* lines 71-78: the content is written to a temporary file that keeps the
\* lowered suffix
temp_file(f) ==
    [ext |-> suffix_lower(f.ext), readable |-> f.readable,
     text_chunks |-> f.text_chunks]

\* the loop at lines 55-78: files without a filename are skipped, a suffix
\* outside the allowed set raises, the others are saved in order
RECURSIVE save_uploads(_, _)
save_uploads(fs, temp_paths) ==
    IF fs = <<>> THEN [raised |-> FALSE, temp_paths |-> temp_paths]
    ELSE IF ~Head(fs).named THEN save_uploads(Tail(fs), temp_paths)
    ELSE IF suffix_lower(Head(fs).ext) \notin allowed_extensions
         THEN [raised |-> TRUE, temp_paths |-> temp_paths]
         ELSE save_uploads(Tail(fs), Append(temp_paths, temp_file(Head(fs))))

\* the HTTPException raised at lines 64-67 inside the try
UnsupportedFileType == [status_code |-> 400, detail |-> "Unsupported file type"]

\* lines 120-128: the handler of every Exception removes the temporary files
\* saved so far and raises a new HTTPException with status 500
process_files_handler(e) ==
    /\ temp_files' = <<>>
    /\ response' = [status_code |-> 500, detail |-> e.detail]
    /\ background_tasks' = background_tasks

InitUpload ==
    /\ file_paths = <<>>
    /\ api_key \in BOOLEAN
    /\ sink_mode = "ok"
    /\ llm_mode = "normal"
    /\ pc = "request"
    /\ RunIdle
    /\ all_insights = <<>>
    /\ unique_insights = <<>>
    /\ insights = <<>>
    /\ themes = <<>>
    /\ theme_resp = <<>>
    /\ rerun = <<>>
    /\ files \in SeqsUpTo(Uploads, MaxUploads)
    /\ temp_files = <<>>
    /\ response = None
    /\ background_tasks = <<>>

\* POST /api/v1/process-files, lines 36-128
process_files ==
    /\ pc = "request"
    /\ pc' = "responded"
    /\ IF files = <<>>
       THEN /\ response' = [status_code |-> 400, detail |-> "No files provided"]
            /\ UNCHANGED <<temp_files, background_tasks>>
       ELSE IF ~api_key
       THEN /\ response' = [status_code |-> 500,
                            detail |-> "OpenAI API key not configured"]
            /\ UNCHANGED <<temp_files, background_tasks>>
       ELSE LET saved == save_uploads(files, <<>>)
            IN IF saved.raised
               THEN process_files_handler(UnsupportedFileType)
               ELSE /\ temp_files' = saved.temp_paths
                    /\ background_tasks' = Append(background_tasks, saved.temp_paths)
                    /\ response' = [status_code |-> 200, status |-> "processing",
                                    files_uploaded |-> Len(saved.temp_paths)]
    /\ UNCHANGED <<file_paths, api_key, sink_mode, llm_mode, documents,
                   all_insights, unique_insights, insights, themes,
                   key_insights, executive_summary, report, results, raised,
                   session, phases, gen_calls, chunk_resp, theme_resp,
                   card_resp, summary_resp, rerun, files>>

NextUpload == process_files

SpecUpload == InitUpload /\ [][NextUpload]_vars

-----------------------------------------------------------------------------
(* Claims about the endpoint (SpecUpload) *)

\* the request carries a named file whose suffix is not allowed, and passes
\* the checks made before the files are looked at
UnsupportedUploaded ==
    /\ files # <<>>
    /\ api_key
    /\ \E i \in 1..Len(files) :
           files[i].named /\ suffix_lower(files[i].ext) \notin allowed_extensions

\* no run was scheduled and no temporary file of the request is left
NothingScheduledNothingLeft ==
    /\ background_tasks = <<>>
    /\ temp_files = <<>>

\* C29: a file whose extension is not in the allowed set makes the endpoint
\* respond with HTTP status 400 (unsupported file type), schedule no
\* background run, and delete every temporary file already saved.
C29_UnsupportedGives400 ==
    (pc = "responded" /\ UnsupportedUploaded) =>
        /\ response.status_code = 400
        /\ NothingScheduledNothingLeft

\* what the endpoint does instead: the same, with status 500
C29_UnsupportedGives500 ==
    (pc = "responded" /\ UnsupportedUploaded) =>
        /\ response.status_code = 500
        /\ response.detail = "Unsupported file type"
        /\ NothingScheduledNothingLeft

\* a .txt file was saved, the .exe file after it was refused: status 500
C29_Witness ==
    /\ pc = "responded"
    /\ Len(files) = 2
    /\ files[1] = Upload(TRUE, ".txt", TRUE, 1)
    /\ files[2].ext = ".exe"
    /\ api_key
    /\ response.status_code = 500
    /\ NothingScheduledNothingLeft

\* the scheduled run is handed temporary files that keep the suffix and the
\* content of the uploads
C30_UploadsHandedOn ==
    (pc = "responded" /\ response.status_code = 200) =>
        /\ background_tasks = <<temp_files>>
        /\ \A i \in 1..Len(temp_files) :
               /\ temp_files[i].ext \in allowed_extensions
               /\ \E k \in 1..Len(files) : temp_files[i] = temp_file(files[k])

\* an uploaded .csv file was accepted and its run scheduled
C30_CsvScheduled ==
    /\ pc = "responded"
    /\ files = <<Upload(TRUE, ".csv", TRUE, 1)>>
    /\ response.status_code = 200
    /\ background_tasks = <<(<<CsvFile>>)>>

-----------------------------------------------------------------------------
(* Claims about accepted extensions in a run (Spec) *)

\* a file the endpoint accepts, that can be read and is not empty
AcceptedReadable(f) ==
    /\ f.ext \in allowed_extensions
    /\ f.readable
    /\ f.text_chunks > 0

AcceptedBatch ==
    /\ file_paths # <<>>
    /\ \A i \in 1..Len(file_paths) : AcceptedReadable(file_paths[i])

\* C30: every extension the upload endpoint accepts is one the Document
\* Ingestor can turn into chunks: a batch of readable, non-empty files with
\* accepted extensions never ends in the "No documents were successfully
\* processed" failure.
C30_AcceptedBatchIsIngested ==
    AcceptedBatch => raised # NoDocuments

\* the same for the extensions the ingestor knows
C30_SupportedBatchIsIngested ==
    ( /\ AcceptedBatch
      /\ \A i \in 1..Len(file_paths) : file_paths[i].ext \in SupportedSuffixes )
        => raised # NoDocuments

\* a batch of one readable .csv file ended in the failure, the sink working
C30_CsvBatchFails ==
    /\ file_paths = <<CsvFile>>
    /\ AcceptedBatch
    /\ sink_mode = "ok"
    /\ pc = "failed"
    /\ raised = NoDocuments
    /\ documents = <<>>

=============================================================================
